---------------------------- MODULE Spec2Model ----------------------------
(***************************************************************************)
(* Model of generateXPaths.js: an XML document is parsed by                *)
(* fast-xml-parser into an object tree, traverseNode walks that tree and   *)
(* pushes one "<text> : <xpath>" line per selected text leaf.              *)
(*                                                                         *)
(* Text (tags, attribute values, element text, predicates, steps) is a     *)
(* sequence of one-character strings, so that indexOf, split, trim and     *)
(* toUpperCase are computed character by character as the code does.       *)
(* Map keys and output lines are stored as strings.  JavaScript's 0-based  *)
(* array positions are 1-based here; "not found" (-1) is 0.                *)
(***************************************************************************)
EXTENDS Integers, Sequences, FiniteSets, TLC

(***************************************************************************)
(* Bounds of the generated input family.                                   *)
(***************************************************************************)
MaxNodes == 4

\* largest assignedIndex a step is built with on its own
MaxIndex == 3

\* longest value formatXPathLiteral is called with on its own
MaxLiteralLen == 4

(***************************************************************************)
(* Characters and strings.                                                 *)
(***************************************************************************)
LowerChars == <<"a","b","c","d","e","f","g","h","i","j","k","l","m",
                "n","o","p","q","r","s","t","u","v","w","x","y","z">>

UpperChars == <<"A","B","C","D","E","F","G","H","I","J","K","L","M",
                "N","O","P","Q","R","S","T","U","V","W","X","Y","Z">>

DigitChars == <<"0","1","2","3","4","5","6","7","8","9">>

SQ == "'"

DQ == "\""

UpperOf ==
  [ c \in { LowerChars[i] : i \in 1..Len(LowerChars) } |->
      UpperChars[CHOOSE i \in 1..Len(LowerChars) : LowerChars[i] = c] ]

\* String.prototype.toUpperCase, one character
UpperChar(c) == IF c \in DOMAIN UpperOf THEN UpperOf[c] ELSE c

\* String.prototype.toUpperCase
toUpperCase(s) == [i \in 1..Len(s) |-> UpperChar(s[i])]

\* String.prototype.indexOf(needle): 1-based position of the first
\* occurrence, 0 when there is none
indexOf(s, needle) ==
  LET hits == { i \in 1..(Len(s) - Len(needle) + 1) :
                  SubSeq(s, i, i + Len(needle) - 1) = needle }
  IN IF hits = {} THEN 0 ELSE CHOOSE i \in hits : \A j \in hits : i <= j

IsSpace(c) == c \in {" ", "\t", "\n", "\r"}

\* String.prototype.trim
RECURSIVE trim(_)
trim(s) ==
  IF s = <<>> THEN s
  ELSE IF IsSpace(Head(s)) THEN trim(Tail(s))
  ELSE IF IsSpace(s[Len(s)]) THEN trim(SubSeq(s, 1, Len(s) - 1))
  ELSE s

\* String.prototype.split(sep) for a one-character separator
RECURSIVE split(_, _)
split(s, sep) ==
  LET i == indexOf(s, <<sep>>)
  IN IF i = 0 THEN <<s>>
     ELSE <<SubSeq(s, 1, i - 1)>> \o split(SubSeq(s, i + 1, Len(s)), sep)

\* Array.prototype.join
RECURSIVE join(_, _)
join(parts, sep) ==
  IF parts = <<>> THEN <<>>
  ELSE IF Len(parts) = 1 THEN parts[1]
  ELSE parts[1] \o sep \o join(Tail(parts), sep)

\* String(n) of a non-negative integer
RECURSIVE Digits(_)
Digits(n) ==
  IF n < 10 THEN <<DigitChars[n + 1]>>
  ELSE Digits(n \div 10) \o <<DigitChars[(n % 10) + 1]>>

\* the JavaScript string a character sequence stands for
RECURSIVE Str(_)
Str(s) == IF s = <<>> THEN "" ELSE Head(s) \o Str(Tail(s))

(***************************************************************************)
(* Names used by the configuration and the input documents.                *)
(***************************************************************************)
PROPERTY == <<"P","R","O","P","E","R","T","Y">>

IMAGE == <<"I","M","A","G","E">>

ImageCategoryType ==
  <<"I","m","a","g","e","C","a","t","e","g","o","r","y","T","y","p","e">>

ValuationUseType ==
  <<"V","a","l","u","a","t","i","o","n","U","s","e","T","y","p","e">>

\* builtInDefaults
builtInDefaults ==
  [ nsShort         |-> <<"d">>,
    includeElements |-> {PROPERTY, IMAGE},
    attrName        |-> ValuationUseType,
    filterParent    |-> IMAGE,
    filterChild     |-> ImageCategoryType ]

\* cfg as the code normalises it: include list and filterParent upper-cased
NormalizeCfg(raw) ==
  [ raw EXCEPT !.includeElements = { toUpperCase(t) : t \in raw.includeElements },
               !.filterParent    = toUpperCase(raw.filterParent) ]

(***************************************************************************)
(* Input documents.  A document is the sequence of its elements in         *)
(* document order (pre-order); depth gives the nesting, so element i is    *)
(* the i-th start tag of the XML text.                                     *)
(***************************************************************************)
NoAttrs == <<>>

Elem(depth, tag, attrs, text) ==
  [ depth |-> depth, tag |-> tag, attrs |-> attrs, text |-> text ]

\* parent of element j (0 is the document object itself)
Parent(doc, j) ==
  IF doc[j].depth = 0 THEN 0
  ELSE CHOOSE i \in 1..(j - 1) :
         /\ doc[i].depth = doc[j].depth - 1
         /\ \A k \in (i + 1)..(j - 1) : doc[k].depth > doc[i].depth

\* child elements of i in document order
RECURSIVE ChildrenFrom(_, _, _)
ChildrenFrom(doc, i, j) ==
  IF j > Len(doc) THEN <<>>
  ELSE (IF Parent(doc, j) = i THEN <<j>> ELSE <<>>) \o ChildrenFrom(doc, i, j + 1)

Children(doc, i) == ChildrenFrom(doc, i, i + 1)

\* ancestors of j from the root element down to j itself
RECURSIVE Chain(_, _)
Chain(doc, j) == IF j = 0 THEN <<>> ELSE Chain(doc, Parent(doc, j)) \o <<j>>

(***************************************************************************)
(* fast-xml-parser (ignoreAttributes false, prefix "@_", text node         *)
(* "#text"): the child elements of an element become properties keyed by   *)
(* tag name, in order of first occurrence; a tag that occurs more than     *)
(* once holds the array of its elements.  An element without attributes    *)
(* and children is its text as a plain string.                             *)
(***************************************************************************)
RECURSIVE GroupByTag(_, _, _)
GroupByTag(doc, kids, acc) ==
  IF kids = <<>> THEN acc
  ELSE LET k == Head(kids)
           hit == { g \in 1..Len(acc) : acc[g].tag = doc[k].tag }
       IN IF hit = {}
          THEN GroupByTag(doc, Tail(kids),
                          Append(acc, [tag |-> doc[k].tag, els |-> <<k>>]))
          ELSE LET g == CHOOSE x \in hit : TRUE
               IN GroupByTag(doc, Tail(kids),
                             [acc EXCEPT ![g].els = Append(@, k)])

ParseElement(doc, i) ==
  LET groups == GroupByTag(doc, Children(doc, i), <<>>)
  IN IF i # 0 /\ groups = <<>> /\ DOMAIN doc[i].attrs = {}
     THEN [ type |-> "string", text |-> doc[i].text,
            attrs |-> NoAttrs, hasText |-> FALSE, keys |-> <<>> ]
     ELSE [ type |-> "object",
            text |-> IF i = 0 THEN <<>> ELSE doc[i].text,
            attrs |-> IF i = 0 THEN NoAttrs ELSE doc[i].attrs,
            hasText |-> i # 0 /\ doc[i].text # <<>>,
            keys |-> groups ]

\* parser.parse(xmlText): value 0 is the document object
Parse(doc) == [ i \in 0..Len(doc) |-> ParseElement(doc, i) ]

(***************************************************************************)
(* State of one run of generateXPaths.js.                                  *)
(***************************************************************************)
VARIABLES
  pc,                         \* phase: read, parse, traverse, write, done, exit2, exit3, exit4
  doc,                        \* the XML document behind inputPath
  cfg,                        \* the normalised configuration
  obj,                        \* the parsed object tree
  todo,                       \* elements traverseNode has still to visit, next first
  signatureCounts,            \* Map signature -> count
  compositeKeyCounters,       \* Map composite key -> last number given
  compositeInstanceToNumber,  \* Map composite instance key -> number
  results,                    \* the output lines
  totalLeaves,
  leavesWithIncludedAncestors,
  written,                    \* what writeFileSync has put into outputPath
  visited,                    \* per visited element: its signature and assignedIndex
  emitted,                    \* per pushed line, what it was built from
                              \* (visited and emitted are book-keeping of the model,
                              \*  read by no action)
  call,                       \* a helper called on its own: its name and arguments
  ret,                        \* what that call has returned
  warned,                     \* the counts console.warn reports when no line was produced
  previous,                   \* what the runs before this one, over the same input, produced
  \* syncImageCategory.js
  xml1, xml2,                 \* the documents behind xml1Path and xml2Path
  obj1, obj2,                 \* their parsed object trees
  images1, images2,           \* findImageNodes(obj1), findImageNodes(obj2)
  mimeToCategory,             \* Map MIME -> ImageCategoryType or null
  updates,
  \* buildImageMappings.js
  inputText,                  \* text, the text behind inputPath
  lines,                      \* text.split(/\r?\n/)
  mappings,                   \* the { key, value } pairs
  out,                        \* the output text, line by line
  at                          \* how far the running for-of loop has come

\* the state of the two smaller scripts
otherScripts == << xml1, xml2, obj1, obj2, images1, images2, mimeToCategory,
                   updates, inputText, lines, mappings, out, at >>

vars == << pc, doc, cfg, obj, todo, signatureCounts, compositeKeyCounters,
           compositeInstanceToNumber, results, totalLeaves,
           leavesWithIncludedAncestors, written, visited, emitted, call, ret,
           warned, previous, otherScripts >>

\* neither of the two smaller scripts has been started
OtherScriptsIdle ==
  /\ xml1 = <<>> /\ xml2 = <<>> /\ obj1 = <<>> /\ obj2 = <<>>
  /\ images1 = <<>> /\ images2 = <<>>
  /\ mimeToCategory = <<>>
  /\ updates = 0
  /\ inputText = <<>> /\ lines = <<>> /\ mappings = <<>> /\ out = <<>>
  /\ at = 0

\* null of getChildText; no text value is equal to it
Null == <<"null">>

\* Map.prototype.get(key) || 0
GetOr0(map, key) == IF key \in DOMAIN map THEN map[key] ELSE 0

\* Map.prototype.set
MapSet(map, key, val) == (key :> val) @@ map

(***************************************************************************)
(* Helpers of generateXPaths.js.                                           *)
(***************************************************************************)
\* ConcatParts that leaves the tokens for the single quotes out
RECURSIVE ConcatPartsNoToken(_, _)
ConcatPartsNoToken(parts, i) ==
  IF i > Len(parts) THEN <<>>
  ELSE (IF Len(parts[i]) > 0 THEN << <<SQ>> \o parts[i] \o <<SQ>> >> ELSE <<>>)
       \o ConcatPartsNoToken(parts, i + 1)

\* ConcatParts that keeps the empty segments
RECURSIVE ConcatPartsKeepEmpty(_, _)
ConcatPartsKeepEmpty(parts, i) ==
  IF i > Len(parts) THEN <<>>
  ELSE << <<SQ>> \o parts[i] \o <<SQ>> >>
       \o (IF i < Len(parts) THEN << <<DQ, SQ, DQ>> >> ELSE <<>>)
       \o ConcatPartsKeepEmpty(parts, i + 1)

RECURSIVE ConcatParts(_, _)
ConcatParts(parts, i) ==
  IF i > Len(parts) THEN <<>>
  ELSE (IF Len(parts[i]) > 0 THEN << <<SQ>> \o parts[i] \o <<SQ>> >> ELSE <<>>)
       \o (IF i < Len(parts) THEN << <<DQ, SQ, DQ>> >> ELSE <<>>)
       \o ConcatParts(parts, i + 1)

\* formatXPathLiteral that wraps every value in single quotes
formatSingleQuoted(value) == <<SQ>> \o value \o <<SQ>>

formatXPathLiteral(value) ==
  IF indexOf(value, <<SQ>>) = 0 THEN <<SQ>> \o value \o <<SQ>>
  ELSE IF indexOf(value, <<DQ>>) = 0 THEN <<DQ>> \o value \o <<DQ>>
  ELSE <<"c","o","n","c","a","t","(">>
       \o join(ConcatParts(split(value, SQ), 1), <<",">>) \o <<")">>

bareTag(tag) ==
  LET idx == indexOf(tag, <<":">>)
  IN IF idx = 0 THEN tag ELSE SubSeq(tag, idx + 1, Len(tag))

isLeafNode(value) ==
  IF value.type = "string" THEN [leaf |-> TRUE, text |-> trim(value.text)]
  ELSE IF value.keys = <<>>
       THEN [leaf |-> TRUE,
             text |-> IF value.hasText THEN trim(value.text) ELSE <<>>]
       ELSE [leaf |-> FALSE, text |-> <<>>]

\* Object.keys(node) holds the attribute keys "@_name" before the child tags
getChildText(node, childTag) ==
  IF node.type # "object" THEN Null
  ELSE
    LET want == toUpperCase(childTag)
        attrHits == { a \in DOMAIN node.attrs :
                        toUpperCase(bareTag(<<"@","_">> \o a)) = want }
        keyHits == { g \in 1..Len(node.keys) :
                        toUpperCase(bareTag(node.keys[g].tag)) = want }
    IN IF attrHits # {}
       THEN trim(node.attrs[CHOOSE a \in attrHits : TRUE])
       ELSE IF keyHits = {} THEN Null
       ELSE LET g == CHOOSE x \in keyHits : \A y \in keyHits : x <= y
                els == node.keys[g].els
            IN IF Len(els) > 1 THEN Null
               ELSE LET v == obj[els[1]]
                    IN IF v.type = "string" THEN trim(v.text)
                       ELSE IF v.hasText THEN trim(v.text)
                       ELSE Null

predicateStringForElement(tag, nodeObj) ==
  LET b == bareTag(tag)
      cv == getChildText(nodeObj, cfg.filterChild)
      byChild == /\ cfg.filterParent # <<>>
                 /\ cfg.filterChild # <<>>
                 /\ toUpperCase(b) = cfg.filterParent
                 /\ cv # Null
                 /\ cv # <<>>
      byAttr == /\ cfg.attrName # <<>>
                /\ cfg.attrName \in DOMAIN nodeObj.attrs
                /\ Len(trim(nodeObj.attrs[cfg.attrName])) > 0
  IN IF byChild
     THEN <<"[","@">> \o cfg.filterChild \o <<"=">> \o formatXPathLiteral(cv) \o <<"]">>
     ELSE IF byAttr
     THEN <<"[","@">> \o cfg.attrName \o <<"=">>
          \o formatXPathLiteral(nodeObj.attrs[cfg.attrName]) \o <<"]">>
     ELSE <<>>

\* buildStepWithIndex that shows every index, 1 as well
buildStepIndexAlways(tag, nodeObj, assignedIndex, alwaysIncludeIndex) ==
  cfg.nsShort \o <<":">> \o bareTag(tag) \o predicateStringForElement(tag, nodeObj)
  \o (IF assignedIndex # 0 THEN <<"[">> \o Digits(assignedIndex) \o <<"]">>
      ELSE <<>>)

\* assignedIndex 0 stands for null (no index asked for)
buildStepWithIndex(tag, nodeObj, assignedIndex, alwaysIncludeIndex) ==
  LET b == bareTag(tag)
      pref == cfg.nsShort \o <<":">> \o b
      pred == predicateStringForElement(tag, nodeObj)
      base == pref \o pred
  IN IF assignedIndex # 0 /\ (alwaysIncludeIndex \/ assignedIndex > 1)
     THEN base \o <<"[">> \o Digits(assignedIndex) \o <<"]">>
     ELSE base

buildNormalStep(tag, nodeObj, assignedIndex) ==
  buildStepWithIndex(tag, nodeObj, assignedIndex, FALSE)

(***************************************************************************)
(* traverseNode: the body of elements.forEach for the element at the head  *)
(* of todo.  A todo entry is the element with the tag it is keyed by and   *)
(* the ancestors array it is visited with; an ancestor frame is            *)
(* {tag, node, assignedIndex} (siblings and pos are never read).           *)
(***************************************************************************)
\* the forEach calls traverseNode(node, ancestors) makes, in order
RECURSIVE Entries(_, _)
Entries(keys, ancestors) ==
  IF keys = <<>> THEN <<>>
  ELSE [ i \in 1..Len(Head(keys).els) |->
           [ tag |-> Head(keys).tag, el |-> Head(keys).els[i],
             ancestors |-> ancestors ] ]
       \o Entries(Tail(keys), ancestors)

Signature(tag, nodeObj) ==
  cfg.nsShort \o <<":">> \o bareTag(tag) \o predicateStringForElement(tag, nodeObj)

\* least element of a non-empty set of positions, else the default
FirstOr(hits, default) ==
  IF hits = {} THEN default ELSE CHOOSE i \in hits : \A j \in hits : i <= j

IsIncluded(tag) == toUpperCase(bareTag(tag)) \in cfg.includeElements

IncludedAncestors(newAncestors) ==
  SelectSeq([ i \in 1..Len(newAncestors) |->
                [ tag |-> newAncestors[i].tag, node |-> newAncestors[i].node,
                  assignedIndex |-> newAncestors[i].assignedIndex,
                  idxInNew |-> i ] ],
            LAMBDA a : IsIncluded(a.tag))

\* Emits without the test for non-empty text
EmitsAnyText(leafInfo, includedAncestors) ==
  leafInfo.leaf /\ Len(includedAncestors) > 0

\* the condition under which a line is pushed
Emits(leafInfo, includedAncestors) ==
  leafInfo.leaf /\ Len(leafInfo.text) > 0 /\ Len(includedAncestors) > 0

\* p && p.indexOf(`@${cfg.attrName}=`) !== -1
HasAttrPredicate(p) ==
  p # <<>> /\ indexOf(p, <<"@">> \o cfg.attrName \o <<"=">>) # 0

\* first included ancestor whose predicate contains "@<attrName>=", else the first
StartIncludedIdx(includedAncestors) ==
  FirstOr({ i \in 1..Len(includedAncestors) :
              HasAttrPredicate(predicateStringForElement(
                includedAncestors[i].tag, obj[includedAncestors[i].node])) },
          1)

\* ImageIncludedIdx that takes a filterParent without predicate as well
ImageIdxByType(includedAncestors) ==
  FirstOr({ i \in 1..Len(includedAncestors) :
              /\ cfg.filterParent # <<>>
              /\ toUpperCase(bareTag(includedAncestors[i].tag)) = cfg.filterParent },
          0)

\* ImageIncludedIdx that searches from the start anchor on
ImageIdxFromStart(includedAncestors) ==
  FirstOr({ i \in StartIncludedIdx(includedAncestors)..Len(includedAncestors) :
              /\ cfg.filterParent # <<>>
              /\ toUpperCase(bareTag(includedAncestors[i].tag)) = cfg.filterParent
              /\ predicateStringForElement(includedAncestors[i].tag,
                                           obj[includedAncestors[i].node]) # <<>> },
          0)

\* first included ancestor that is a filterParent carrying a predicate, else 0
ImageIncludedIdx(includedAncestors) ==
  FirstOr({ i \in 1..Len(includedAncestors) :
              /\ cfg.filterParent # <<>>
              /\ toUpperCase(bareTag(includedAncestors[i].tag)) = cfg.filterParent
              /\ predicateStringForElement(includedAncestors[i].tag,
                                           obj[includedAncestors[i].node]) # <<>> },
          0)

\* what the visit of todo entry cur computes before it addresses the leaf
VisitIn(cur, sig, newAncestors, includedAncestors) ==
  [ cur |-> cur, sig |-> sig,
    newIdx |-> newAncestors[Len(newAncestors)].assignedIndex,
    newAncestors |-> newAncestors,
    leafInfo |-> isLeafNode(obj[cur.el]),
    included |-> includedAncestors,
    startIdx |-> StartIncludedIdx(includedAncestors),
    imageIdx |-> ImageIncludedIdx(includedAncestors) ]

VisitAt(cur, sig, newAncestors) ==
  VisitIn(cur, sig, newAncestors, IncludedAncestors(newAncestors))

VisitWith(cur, sig) ==
  VisitAt(cur, sig,
          Append(cur.ancestors,
                 [ tag |-> cur.tag, node |-> cur.el,
                   assignedIndex |-> GetOr0(signatureCounts, sig) + 1 ]))

Visit(cur) == VisitWith(cur, Str(Signature(cur.tag, obj[cur.el])))

\* JoinSep that takes every pair for neighbours
JoinSepChild(prevIdxInNew, currIdxInNew) == <<"/">>

\* JoinSep that takes no pair for neighbours
JoinSepDescendant(prevIdxInNew, currIdxInNew) == <<"/","/">>

\* "/" between neighbours of the ancestor chain, "//" otherwise
JoinSep(prevIdxInNew, currIdxInNew) ==
  IF currIdxInNew = prevIdxInNew + 1 THEN <<"/">> ELSE <<"/","/">>

\* a rendered step: separator before it, the frame it renders, its text
Step(sep, node, idxInNew, text) ==
  [ sep |-> sep, node |-> node, idxInNew |-> idxInNew, text |-> text ]

RECURSIVE StepsText(_)
StepsText(steps) ==
  IF steps = <<>> THEN <<>>
  ELSE Head(steps).sep \o Head(steps).text \o StepsText(Tail(steps))

CompositeKey(slice) ==
  join([ i \in 1..Len(slice) |-> Signature(slice[i].tag, obj[slice[i].node]) ],
       <<"|","|">>)

InstanceIdParts(slice) ==
  join([ i \in 1..Len(slice) |->
           cfg.nsShort \o <<":">> \o bareTag(slice[i].tag) \o <<"#">>
           \o Digits(slice[i].assignedIndex) ],
       <<",">>)

CompositeInstanceKey(compositeKey, slice) ==
  compositeKey \o <<":",":">> \o InstanceIdParts(slice)

\* CompositeNumber that counts the instances of all keys in one sequence
CompositeNumberGlobal(counters, instances, compositeKey, compositeInstanceKey) ==
  IF compositeInstanceKey \in DOMAIN instances
  THEN [ number |-> instances[compositeInstanceKey],
         counters |-> counters, instances |-> instances,
         instance |-> compositeInstanceKey ]
  ELSE [ number |-> Cardinality(DOMAIN instances) + 1,
         counters |-> MapSet(counters, compositeKey,
                             Cardinality(DOMAIN instances) + 1),
         instances |-> MapSet(instances, compositeInstanceKey,
                              Cardinality(DOMAIN instances) + 1),
         instance |-> compositeInstanceKey ]

\* CompositeNumber that leaves a number out for every new instance
CompositeNumberSkipping(counters, instances, compositeKey, compositeInstanceKey) ==
  IF compositeInstanceKey \in DOMAIN instances
  THEN [ number |-> instances[compositeInstanceKey],
         counters |-> counters, instances |-> instances,
         instance |-> compositeInstanceKey ]
  ELSE [ number |-> GetOr0(counters, compositeKey) + 2,
         counters |-> MapSet(counters, compositeKey,
                             GetOr0(counters, compositeKey) + 2),
         instances |-> MapSet(instances, compositeInstanceKey,
                              GetOr0(counters, compositeKey) + 2),
         instance |-> compositeInstanceKey ]

\* look the instance up, or give the key's next number to it
CompositeNumber(counters, instances, compositeKey, compositeInstanceKey) ==
  IF compositeInstanceKey \in DOMAIN instances
  THEN [ number |-> instances[compositeInstanceKey],
         counters |-> counters, instances |-> instances,
         instance |-> compositeInstanceKey ]
  ELSE [ number |-> GetOr0(counters, compositeKey) + 1,
         counters |-> MapSet(counters, compositeKey,
                             GetOr0(counters, compositeKey) + 1),
         instances |-> MapSet(instances, compositeInstanceKey,
                              GetOr0(counters, compositeKey) + 1),
         instance |-> compositeInstanceKey ]

\* InsideSteps that gives the filterParent its index as well
InsideStepsAllIndexed(slice) ==
  [ i \in 1..Len(slice) |->
      Step(IF i = 1 THEN <<>>
           ELSE JoinSep(slice[i - 1].idxInNew, slice[i].idxInNew),
           slice[i].node, slice[i].idxInNew,
           buildStepWithIndex(slice[i].tag, obj[slice[i].node],
                              slice[i].assignedIndex, TRUE)) ]

\* InsideSteps that renders the group anchor alone
InsideStepsAnchor(slice) ==
  << Step(<<>>, slice[Len(slice)].node, slice[Len(slice)].idxInNew,
          buildStepWithIndex(slice[Len(slice)].tag, obj[slice[Len(slice)].node],
                             0, FALSE)) >>

\* InsideSteps that shows an index above 1 only
InsideStepsNormal(slice) ==
  [ i \in 1..Len(slice) |->
      Step(IF i = 1 THEN <<>>
           ELSE JoinSep(slice[i - 1].idxInNew, slice[i].idxInNew),
           slice[i].node, slice[i].idxInNew,
           IF toUpperCase(bareTag(slice[i].tag)) = cfg.filterParent
           THEN buildStepWithIndex(slice[i].tag, obj[slice[i].node], 0, FALSE)
           ELSE buildNormalStep(slice[i].tag, obj[slice[i].node],
                                slice[i].assignedIndex)) ]

\* insideParts with the separators of insideJoined
InsideSteps(slice) ==
  [ i \in 1..Len(slice) |->
      Step(IF i = 1 THEN <<>>
           ELSE JoinSep(slice[i - 1].idxInNew, slice[i].idxInNew),
           slice[i].node, slice[i].idxInNew,
           IF toUpperCase(bareTag(slice[i].tag)) = cfg.filterParent
           THEN buildStepWithIndex(slice[i].tag, obj[slice[i].node], 0, FALSE)
           ELSE buildStepWithIndex(slice[i].tag, obj[slice[i].node],
                                   slice[i].assignedIndex, TRUE)) ]

\* afterParts: the included ancestors after position imageIdx
AfterSteps(includedAncestors, imageIdx) ==
  [ k \in 1..(Len(includedAncestors) - imageIdx) |->
      Step(JoinSep(includedAncestors[imageIdx + k - 1].idxInNew,
                   includedAncestors[imageIdx + k].idxInNew),
           includedAncestors[imageIdx + k].node,
           includedAncestors[imageIdx + k].idxInNew,
           buildNormalStep(includedAncestors[imageIdx + k].tag,
                           obj[includedAncestors[imageIdx + k].node],
                           includedAncestors[imageIdx + k].assignedIndex)) ]

LeafIsSame(lastIncluded, thisAncestor) ==
  toUpperCase(bareTag(lastIncluded.tag)) = toUpperCase(bareTag(thisAncestor.tag))

\* the leaf step appended to a grouped path
GroupedLeafSteps(includedAncestors, newAncestors) ==
  IF LeafIsSame(includedAncestors[Len(includedAncestors)],
                newAncestors[Len(newAncestors)])
  THEN <<>>
  ELSE << Step(JoinSep(includedAncestors[Len(includedAncestors)].idxInNew,
                       Len(newAncestors)),
               newAncestors[Len(newAncestors)].node, Len(newAncestors),
               buildStepWithIndex(newAncestors[Len(newAncestors)].tag,
                                  obj[newAncestors[Len(newAncestors)].node],
                                  0, FALSE)) >>

\* PlainLeafSteps that joins the leaf as the grouped paths do
PlainLeafStepsAdjacent(includedAncestors, newAncestors) ==
  GroupedLeafSteps(includedAncestors, newAncestors)

\* the leaf step appended to the plain included-only path
PlainLeafSteps(includedAncestors, newAncestors) ==
  IF LeafIsSame(includedAncestors[Len(includedAncestors)],
                newAncestors[Len(newAncestors)])
  THEN <<>>
  ELSE << Step(<<"/","/">>,
               newAncestors[Len(newAncestors)].node, Len(newAncestors),
               buildStepWithIndex(newAncestors[Len(newAncestors)].tag,
                                  obj[newAncestors[Len(newAncestors)].node],
                                  0, FALSE)) >>

\* parts of the plain included-only path
PlainSteps(includedAncestors) ==
  [ i \in 1..Len(includedAncestors) |->
      Step(IF i = 1 THEN <<>>
           ELSE JoinSep(includedAncestors[i - 1].idxInNew,
                        includedAncestors[i].idxInNew),
           includedAncestors[i].node, includedAncestors[i].idxInNew,
           buildNormalStep(includedAncestors[i].tag, obj[includedAncestors[i].node],
                           includedAncestors[i].assignedIndex)) ]

Grouped(inside, compositeNumber) ==
  <<"(","/","/">> \o inside \o <<")","[">> \o Digits(compositeNumber) \o <<"]">>

\* the element is visited: index given, leaf counted, children queued
VisitCommon(v) ==
  /\ signatureCounts' = MapSet(signatureCounts, v.sig, v.newIdx)
  /\ totalLeaves' = IF v.leafInfo.leaf THEN totalLeaves + 1 ELSE totalLeaves
  /\ todo' = (IF v.leafInfo.leaf THEN <<>>
              ELSE Entries(obj[v.cur.el].keys, v.newAncestors)) \o Tail(todo)
  /\ visited' = Append(visited, [ el |-> v.cur.el, sig |-> v.sig,
                                  assignedIndex |-> v.newIdx ])
  /\ UNCHANGED << pc, doc, cfg, obj, written, call, ret, warned, previous,
                  otherScripts >>

\* results.push(`${leafInfo.text} : ${xpath}`)
PushLine(v, got, steps) ==
  /\ compositeKeyCounters' = got.counters
  /\ compositeInstanceToNumber' = got.instances
  /\ results' = Append(results,
                       Str(v.leafInfo.text \o <<" ",":"," ">> \o steps.xpath))
  /\ leavesWithIncludedAncestors' = leavesWithIncludedAncestors + 1
  /\ emitted' = Append(emitted,
       [ leaf |-> v.cur.el, branch |-> steps.branch, key |-> steps.key,
         number |-> got.number, instance |-> got.instance, inside |-> steps.inside, after |-> steps.after,
         xpath |-> steps.xpath,
         included |-> [ i \in 1..Len(v.included) |-> v.included[i].node ],
         start |-> v.included[v.startIdx].node,
         image |-> IF v.imageIdx = 0 THEN 0 ELSE v.included[v.imageIdx].node ])

NoLine ==
  UNCHANGED << compositeKeyCounters, compositeInstanceToNumber, results,
               leavesWithIncludedAncestors, emitted >>

\* a non-leaf element: traverseNode recurses into it
VisitInner ==
  /\ pc = "traverse" /\ todo # <<>>
  /\ \E v \in { Visit(Head(todo)) } :
       /\ ~v.leafInfo.leaf
       /\ VisitCommon(v)
  /\ NoLine

\* a leaf that yields no line
VisitSilentLeaf ==
  /\ pc = "traverse" /\ todo # <<>>
  /\ \E v \in { Visit(Head(todo)) } :
       /\ v.leafInfo.leaf
       /\ ~Emits(v.leafInfo, v.included)
       /\ VisitCommon(v)
  /\ NoLine

\* the grouped path through the slice [start anchor .. group anchor]
CompositePath(got, compositeKey, inside, after) ==
  [ branch |-> "composite", key |-> compositeKey, inside |-> inside,
    after |-> after,
    xpath |-> Grouped(StepsText(inside), got.number) \o StepsText(after) ]

EmitCompositeWith(v, slice, compositeKey) ==
  \E got \in { CompositeNumber(compositeKeyCounters, compositeInstanceToNumber,
                               Str(compositeKey),
                               Str(CompositeInstanceKey(compositeKey, slice))) } :
    PushLine(v, got,
             CompositePath(got, Str(compositeKey), InsideSteps(slice),
                           AfterSteps(v.included, v.imageIdx)
                           \o GroupedLeafSteps(v.included, v.newAncestors)))

EmitComposite ==
  /\ pc = "traverse" /\ todo # <<>>
  /\ \E v \in { Visit(Head(todo)) } :
       /\ Emits(v.leafInfo, v.included)
       /\ v.imageIdx >= 1 /\ v.startIdx <= v.imageIdx
       /\ \E slice \in { SubSeq(v.included, v.startIdx, v.imageIdx) } :
            EmitCompositeWith(v, slice, CompositeKey(slice))
       /\ VisitCommon(v)

\* the grouped path through the group anchor alone
AnchorOnlyPath(got, groupedAnc, sig, after) ==
  [ branch |-> "anchor", key |-> Str(sig),
    inside |-> << Step(<<>>, groupedAnc.node, groupedAnc.idxInNew, sig) >>,
    after |-> after,
    xpath |-> Grouped(sig, got.number) \o StepsText(after) ]

EmitAnchorOnlyWith(v, groupedAnc, sig) ==
  \E got \in { CompositeNumber(compositeKeyCounters, compositeInstanceToNumber,
                               Str(sig),
                               Str(sig \o <<":",":">> \o cfg.nsShort \o <<":">>
                                   \o bareTag(groupedAnc.tag) \o <<"#">>
                                   \o Digits(groupedAnc.assignedIndex))) } :
    PushLine(v, got,
             AnchorOnlyPath(got, groupedAnc, sig,
                            AfterSteps(v.included, v.imageIdx)
                            \o GroupedLeafSteps(v.included, v.newAncestors)))

EmitAnchorOnly ==
  /\ pc = "traverse" /\ todo # <<>>
  /\ \E v \in { Visit(Head(todo)) } :
       /\ Emits(v.leafInfo, v.included)
       /\ ~(v.imageIdx >= 1 /\ v.startIdx <= v.imageIdx)
       /\ ImageIncludedIdx(v.included) >= 1
       /\ \E groupedAnc \in { v.included[ImageIncludedIdx(v.included)] } :
            EmitAnchorOnlyWith(v, groupedAnc,
                               Signature(groupedAnc.tag, obj[groupedAnc.node]))
       /\ VisitCommon(v)

\* the plain included-only path
PlainPath(parts) ==
  [ branch |-> "plain", key |-> "", inside |-> <<>>, after |-> parts,
    xpath |-> <<"/","/">> \o StepsText(parts) ]

EmitPlain ==
  /\ pc = "traverse" /\ todo # <<>>
  /\ \E v \in { Visit(Head(todo)) } :
       /\ Emits(v.leafInfo, v.included)
       /\ ~(v.imageIdx >= 1 /\ v.startIdx <= v.imageIdx)
       /\ ImageIncludedIdx(v.included) = 0
       /\ PushLine(v,
                   [ number |-> 0, counters |-> compositeKeyCounters,
                     instances |-> compositeInstanceToNumber, instance |-> "" ],
                   PlainPath(PlainSteps(v.included)
                             \o PlainLeafSteps(v.included, v.newAncestors)))
       /\ VisitCommon(v)

(***************************************************************************)
(* The phases around the traversal.                                        *)
(***************************************************************************)
Frame ==
  UNCHANGED << doc, cfg, signatureCounts, compositeKeyCounters,
               compositeInstanceToNumber, results, totalLeaves,
               leavesWithIncludedAncestors, visited, emitted, call, ret, previous,
               otherScripts >>

\* fs.readFileSync(inputPath)
Read == pc = "read" /\ pc' = "parse" /\ Frame /\ UNCHANGED << obj, todo, written, warned >>

\* ... throws: process.exit(2)
ReadFail == pc = "read" /\ pc' = "exit2" /\ Frame /\ UNCHANGED << obj, todo, written, warned >>

\* parser.parse(xmlText), then the call traverseNode(obj, [])
ParseOk ==
  /\ pc = "parse" /\ pc' = "traverse"
  /\ obj' = Parse(doc)
  /\ todo' = Entries(obj'[0].keys, <<>>)
  /\ Frame /\ UNCHANGED << written, warned >>

\* ... throws: process.exit(3)
ParseFail == pc = "parse" /\ pc' = "exit3" /\ Frame /\ UNCHANGED << obj, todo, written, warned >>

\* the zero-lines diagnostics: total leaf nodes found, and leaf nodes that
\* have at least one ancestor in includeElements
Diagnostics ==
  IF Len(results) = 0 THEN << totalLeaves, leavesWithIncludedAncestors >> ELSE <<>>

\* Write that does not wait for the traversal to end
WriteEarly ==
  /\ pc = "traverse"
  /\ pc' = "done"
  /\ written' = Append(written, results)
  /\ warned' = Diagnostics
  /\ Frame /\ UNCHANGED << obj, todo >>

\* fs.writeFileSync(outputPath, results.join('\n'))
Write ==
  /\ pc = "traverse" /\ todo = <<>>
  /\ pc' = "done"
  /\ written' = Append(written, results)
  /\ warned' = Diagnostics
  /\ Frame /\ UNCHANGED << obj, todo >>

\* ... throws: process.exit(4)
WriteFail ==
  /\ pc = "traverse" /\ todo = <<>>
  /\ pc' = "exit4"
  /\ Frame /\ UNCHANGED << obj, todo, written, warned >>

(***************************************************************************)
(* Inputs: every document of at most MaxNodes elements over four kinds of  *)
(* element under the default configuration, those of fewer elements also   *)
(* under a second one, and the documents of the scenarios.                 *)
(***************************************************************************)
T == <<"t">>

KindProperty == [ tag |-> PROPERTY, attrs |-> NoAttrs, text |-> <<>> ]

KindImage == [ tag |-> IMAGE, attrs |-> NoAttrs, text |-> T ]

KindImageAttr ==
  [ tag |-> IMAGE, attrs |-> (ValuationUseType :> <<"x">>), text |-> T ]

KindCategory == [ tag |-> ImageCategoryType, attrs |-> NoAttrs, text |-> <<"F">> ]

Kinds == { KindProperty, KindImage, KindImageAttr, KindCategory }

\* the depth sequences of the trees with n elements
RECURSIVE DepthSeqs(_)
DepthSeqs(n) ==
  IF n = 1 THEN { <<0>> }
  ELSE UNION { { Append(s, d) : d \in 1..(s[Len(s)] + 1) } : s \in DepthSeqs(n - 1) }

DocsOfSize(n) ==
  { [ i \in 1..n |-> Elem(s[i], k[i].tag, k[i].attrs, k[i].text) ] :
      s \in DepthSeqs(n), k \in [ 1..n -> Kinds ] }

GenDocs == UNION { DocsOfSize(n) : n \in 1..MaxNodes }

\* the documents that are also run under the second configuration
SmallDocs == UNION { DocsOfSize(n) : n \in 1..(MaxNodes - 1) }

\* --include IMAGE,ImageCategoryType
LeafCfg ==
  NormalizeCfg([ builtInDefaults EXCEPT
                   !.includeElements = { IMAGE, ImageCategoryType } ])

(***************************************************************************)
(* Documents of the scenarios.                                             *)
(***************************************************************************)
Front == <<"F","r","o","n","t">>

Rear == <<"R","e","a","r">>

Exterior == <<"E","x","t","e","r","i","o","r">>

Interior == <<"I","n","t","e","r","i","o","r">>

Caption == <<"C","a","p","t","i","o","n">>

VALUATION == <<"V","A","L","U","A","T","I","O","N">>

SITE == <<"S","I","T","E">>

DefaultCfg == NormalizeCfg(builtInDefaults)

\* <IMAGE><ImageCategoryType>category</ImageCategoryType><Caption>t</Caption></IMAGE>
ImageWithCategory(depth, category) ==
  << Elem(depth, IMAGE, NoAttrs, <<>>),
     Elem(depth + 1, ImageCategoryType, NoAttrs, category),
     Elem(depth + 1, Caption, NoAttrs, T) >>

\* <PROPERTY> with a Front and a Rear IMAGE
PropertyFrontRear(depth) ==
  << Elem(depth, PROPERTY, NoAttrs, <<>>) >>
  \o ImageWithCategory(depth + 1, Front) \o ImageWithCategory(depth + 1, Rear)

\* three PROPERTY elements, each with a Front and a Rear IMAGE
DocFrontRear ==
  << Elem(0, VALUATION, NoAttrs, <<>>) >>
  \o PropertyFrontRear(1) \o PropertyFrontRear(1) \o PropertyFrontRear(1)

\* <d:PROPERTY><d:IMAGE><d:Category>Front</d:Category></d:IMAGE></d:PROPERTY>
DocCategory ==
  << Elem(0, <<"d",":">> \o PROPERTY, NoAttrs, <<>>),
     Elem(1, <<"d",":">> \o IMAGE, NoAttrs, <<>>),
     Elem(2, <<"d",":","C","a","t","e","g","o","r","y">>, NoAttrs, Front) >>

\* one PROPERTY, two IMAGE siblings told apart by ValuationUseType
DocUseType ==
  << Elem(0, PROPERTY, NoAttrs, <<>>),
     Elem(1, IMAGE, (ValuationUseType :> Exterior), <<>>),
     Elem(2, Caption, NoAttrs, <<"a">>),
     Elem(1, IMAGE, (ValuationUseType :> Interior), <<>>),
     Elem(2, Caption, NoAttrs, <<"b">>) >>

\* PROPERTY siblings with a SITE between them, an IMAGE in each
DocInterleaved ==
  << Elem(0, VALUATION, NoAttrs, <<>>),
     Elem(1, PROPERTY, NoAttrs, <<>>),
     Elem(2, IMAGE, (ValuationUseType :> Exterior), <<"a">>),
     Elem(1, SITE, NoAttrs, <<>>),
     Elem(2, IMAGE, (ValuationUseType :> Exterior), <<"b">>),
     Elem(1, PROPERTY, NoAttrs, <<>>),
     Elem(2, IMAGE, (ValuationUseType :> Exterior), <<"c">>) >>

\* two Front IMAGEs; the second holds a Caption carrying the attribute
DocCaptionAttr ==
  << Elem(0, PROPERTY, NoAttrs, <<>>),
     Elem(1, IMAGE, NoAttrs, <<>>),
     Elem(2, ImageCategoryType, NoAttrs, Front),
     Elem(1, IMAGE, NoAttrs, <<>>),
     Elem(2, ImageCategoryType, NoAttrs, Front),
     Elem(2, Caption, (ValuationUseType :> Exterior), <<"b">>) >>

\* a Front IMAGE below an element that is not selected, and one below PROPERTY itself
DocElided ==
  << Elem(0, PROPERTY, NoAttrs, <<>>),
     Elem(1, SITE, NoAttrs, <<>>),
     Elem(2, IMAGE, NoAttrs, <<>>),
     Elem(3, ImageCategoryType, NoAttrs, Front),
     Elem(1, IMAGE, NoAttrs, <<>>),
     Elem(2, ImageCategoryType, NoAttrs, Front) >>

\* a leaf IMAGE without predicate, and a Front IMAGE that holds an IMAGE
\* carrying the attribute: one leaf for each way of addressing
DocFallback ==
  << Elem(0, PROPERTY, NoAttrs, <<>>),
     Elem(1, IMAGE, NoAttrs, T),
     Elem(1, IMAGE, NoAttrs, <<>>),
     Elem(2, ImageCategoryType, NoAttrs, Front),
     Elem(2, IMAGE, (ValuationUseType :> Exterior), T) >>

\* --attr ImageCategoryType: attrName and filterChild are the same name
SameNameCfg ==
  NormalizeCfg([ builtInDefaults EXCEPT !.attrName = ImageCategoryType ])

\* one PROPERTY with one Front IMAGE
DocOneFront ==
  << Elem(0, PROPERTY, NoAttrs, <<>>) >> \o ImageWithCategory(1, Front)

CaptionCfg ==
  NormalizeCfg([ builtInDefaults EXCEPT
                   !.includeElements = { PROPERTY, IMAGE, Caption } ])

Scenarios ==
  { << DocFrontRear, DefaultCfg >>, << DocCategory, DefaultCfg >>,
    << DocUseType, DefaultCfg >>, << DocInterleaved, DefaultCfg >>,
    << DocElided, DefaultCfg >>, << DocFallback, DefaultCfg >>,
    << DocCaptionAttr, CaptionCfg >>, << DocOneFront, SameNameCfg >> }

Inputs ==
  (GenDocs \X { DefaultCfg }) \cup (SmallDocs \X { LeafCfg }) \cup Scenarios

Init ==
  /\ pc = "read"
  /\ \E input \in Inputs : doc = input[1] /\ cfg = input[2]
  /\ obj = <<>>
  /\ todo = <<>>
  /\ signatureCounts = <<>>
  /\ compositeKeyCounters = <<>>
  /\ compositeInstanceToNumber = <<>>
  /\ results = <<>>
  /\ totalLeaves = 0
  /\ leavesWithIncludedAncestors = 0
  /\ written = <<>>
  /\ visited = <<>>
  /\ emitted = <<>>
  /\ call = <<>>
  /\ ret = <<>>
  /\ warned = <<>>
  /\ previous = <<>>
  /\ OtherScriptsIdle

Next ==
  \/ Read
  \/ ReadFail
  \/ ParseOk
  \/ ParseFail
  \/ VisitInner
  \/ VisitSilentLeaf
  \/ EmitComposite
  \/ EmitAnchorOnly
  \/ EmitPlain
  \/ Write
  \/ WriteFail

Spec == Init /\ [][Next]_vars

(***************************************************************************)
(* The script run a second time over the same input: a new process, which  *)
(* builds its Maps, results and counters anew.                             *)
(***************************************************************************)
RerunInputs == (SmallDocs \X { DefaultCfg }) \cup Scenarios

RerunInit == Init /\ << doc, cfg >> \in RerunInputs

\* what a run leaves behind for comparison
RunRecord == [ results |-> results, visited |-> visited, emitted |-> emitted ]

\* Rerun in which signatureCounts outlives the process
RerunKeepingCounts ==
  /\ pc = "done" /\ Len(written) = 1
  /\ pc' = "read"
  /\ previous' = Append(previous, RunRecord)
  /\ obj' = <<>> /\ todo' = <<>>
  /\ compositeKeyCounters' = <<>>
  /\ compositeInstanceToNumber' = <<>>
  /\ results' = <<>>
  /\ totalLeaves' = 0
  /\ leavesWithIncludedAncestors' = 0
  /\ visited' = <<>> /\ emitted' = <<>> /\ warned' = <<>>
  /\ UNCHANGED << doc, cfg, written, call, ret, signatureCounts, otherScripts >>

Rerun ==
  /\ pc = "done" /\ Len(written) = 1
  /\ pc' = "read"
  /\ previous' = Append(previous, RunRecord)
  /\ obj' = <<>> /\ todo' = <<>>
  /\ signatureCounts' = <<>>
  /\ compositeKeyCounters' = <<>>
  /\ compositeInstanceToNumber' = <<>>
  /\ results' = <<>>
  /\ totalLeaves' = 0
  /\ leavesWithIncludedAncestors' = 0
  /\ visited' = <<>> /\ emitted' = <<>> /\ warned' = <<>>
  /\ UNCHANGED << doc, cfg, written, call, ret, otherScripts >>

RerunNext ==
  \/ Next
  \/ Rerun

Reruns == RerunInit /\ [][RerunNext]_vars

(***************************************************************************)
(* The helpers called on their own: formatXPathLiteral on every value of   *)
(* at most MaxLiteralLen characters over a letter, the two quotes and the  *)
(* comma; buildStepWithIndex and buildNormalStep on every element of the   *)
(* scenario documents with the indices up to MaxIndex (index 0 is null,    *)
(* which the code passes with alwaysIncludeIndex false only).              *)
(***************************************************************************)
LiteralChars == { "a", SQ, DQ, "," }

LiteralValues == UNION { [ 1..n -> LiteralChars ] : n \in 0..MaxLiteralLen }

LiteralCalls ==
  { [ fn |-> "formatXPathLiteral", value |-> v ] : v \in LiteralValues }

StepCalls(d) ==
  { [ fn |-> "buildStepWithIndex", el |-> j, assignedIndex |-> n,
      alwaysIncludeIndex |-> b ] :
      j \in 1..Len(d), n \in 0..MaxIndex, b \in BOOLEAN }
  \ { [ fn |-> "buildStepWithIndex", el |-> j, assignedIndex |-> 0,
        alwaysIncludeIndex |-> TRUE ] : j \in 1..Len(d) }

NormalStepCalls(d) ==
  { [ fn |-> "buildNormalStep", el |-> j, assignedIndex |-> n ] :
      j \in 1..Len(d), n \in 1..MaxIndex }

CallDocs == { DocCategory, DocUseType, DocCaptionAttr }

CallInputs ==
  { << <<>>, c >> : c \in LiteralCalls }
  \cup UNION { { << d, c >> : c \in StepCalls(d) \cup NormalStepCalls(d) } :
                 d \in CallDocs }

CallInit ==
  /\ pc = "call"
  /\ \E input \in CallInputs :
       /\ doc = input[1]
       /\ obj = IF input[1] = <<>> THEN <<>> ELSE Parse(input[1])
       /\ call = input[2]
  /\ cfg = DefaultCfg
  /\ ret = <<>>
  /\ warned = <<>>
  /\ previous = <<>>
  /\ OtherScriptsIdle
  /\ todo = <<>>
  /\ signatureCounts = <<>>
  /\ compositeKeyCounters = <<>>
  /\ compositeInstanceToNumber = <<>>
  /\ results = <<>>
  /\ totalLeaves = 0
  /\ leavesWithIncludedAncestors = 0
  /\ written = <<>>
  /\ visited = <<>>
  /\ emitted = <<>>

Returns(value) ==
  /\ pc = "call"
  /\ pc' = "returned"
  /\ ret' = value
  /\ UNCHANGED << doc, cfg, obj, todo, signatureCounts, compositeKeyCounters,
                  compositeInstanceToNumber, results, totalLeaves,
                  leavesWithIncludedAncestors, written, visited, emitted, call,
                  warned, previous, otherScripts >>

CallFormatXPathLiteral ==
  /\ call.fn = "formatXPathLiteral"
  /\ Returns(formatXPathLiteral(call.value))

CallBuildStepWithIndex ==
  /\ call.fn = "buildStepWithIndex"
  /\ Returns(buildStepWithIndex(doc[call.el].tag, obj[call.el],
                                call.assignedIndex, call.alwaysIncludeIndex))

CallBuildNormalStep ==
  /\ call.fn = "buildNormalStep"
  /\ Returns(buildNormalStep(doc[call.el].tag, obj[call.el], call.assignedIndex))

CallNext ==
  \/ CallFormatXPathLiteral
  \/ CallBuildStepWithIndex
  \/ CallBuildNormalStep

Calls == CallInit /\ [][CallNext]_vars

(***************************************************************************)
(* buildImageMappings.js: the text of "KEY : VALUE" lines is split into    *)
(* lines, every line is parsed into at most one { key, value } pair, and   *)
(* one <common> block is written per pair.  The output text is kept line   *)
(* by line: every `out +=` of the code adds one line.                      *)
(***************************************************************************)
MaxLines == 3

MaxLineLen == 3

\* String.prototype.startsWith
startsWith(s, prefix) ==
  Len(s) >= Len(prefix) /\ SubSeq(s, 1, Len(prefix)) = prefix

\* String.prototype.endsWith
endsWith(s, suffix) ==
  Len(s) >= Len(suffix) /\ SubSeq(s, Len(s) - Len(suffix) + 1, Len(s)) = suffix

\* text.split(/\r?\n/): a "\r" right before the "\n" belongs to the separator
splitLines(s) ==
  LET pieces == split(s, "\n")
  IN [ i \in 1..Len(pieces) |->
         IF i < Len(pieces) /\ endsWith(pieces[i], <<"\r">>)
         THEN SubSeq(pieces[i], 1, Len(pieces[i]) - 1)
         ELSE pieces[i] ]

EscapeChar(c) ==
  CASE c = "&" -> <<"&","a","m","p",";">>
    [] c = "<" -> <<"&","l","t",";">>
    [] c = ">" -> <<"&","g","t",";">>
    [] c = DQ  -> <<"&","q","u","o","t",";">>
    [] OTHER   -> << c >>

RECURSIVE escapeXml(_)
escapeXml(str) ==
  IF str = <<>> THEN <<>> ELSE EscapeChar(Head(str)) \o escapeXml(Tail(str))

\* the command line defaults: imageSource and wrapPrefix
ImageFileLocationIdentifier ==
  <<"I","m","a","g","e","F","i","l","e","L","o","c","a","t","i","o","n","I",
    "d","e","n","t","i","f","i","e","r">>

MappingDefaults ==
  [ imageSource |-> <<"d", ":">> \o ImageFileLocationIdentifier,
    wrapPrefix  |-> <<"t","a","g">> ]

\* the loop body of the line parser: no pair or one
\* (parseLine that splits at the last colon)
parseLineLastColon(raw0) ==
  LET raw == trim(raw0)
      hits == { i \in 1..Len(raw) : raw[i] = ":" }
      idx == IF hits = {} THEN 0 ELSE CHOOSE i \in hits : \A j \in hits : i >= j
  IN IF raw = <<>> THEN <<>>
     ELSE IF startsWith(raw, <<"#">>) \/ startsWith(raw, <<"/","/">>) THEN <<>>
     ELSE IF idx = 0 THEN <<>>
     ELSE IF trim(SubSeq(raw, 1, idx - 1)) = <<>> THEN <<>>
     ELSE << [ key   |-> trim(SubSeq(raw, 1, idx - 1)),
               value |-> trim(SubSeq(raw, idx + 1, Len(raw))) ] >>

parseLine(raw0) ==
  LET raw == trim(raw0)
      idx == indexOf(raw, <<":">>)
  IN IF raw = <<>> THEN <<>>
     ELSE IF startsWith(raw, <<"#">>) \/ startsWith(raw, <<"/","/">>) THEN <<>>
     ELSE IF idx = 0 THEN <<>>
     ELSE IF trim(SubSeq(raw, 1, idx - 1)) = <<>> THEN <<>>
     ELSE << [ key   |-> trim(SubSeq(raw, 1, idx - 1)),
               value |-> trim(SubSeq(raw, idx + 1, Len(raw))) ] >>

\* imageSource.includes(':') ? imageSource.split(':').pop() : imageSource
localName(imageSource) ==
  LET parts == split(imageSource, ":") IN parts[Len(parts)]

AllSpace(s) == \A i \in 1..Len(s) : IsSpace(s[i])

\* (?:\s*\[.*\])?\s*\/?$ over the rest of the value
TailMatches(rest) ==
  LET Plain(b) ==
        \/ AllSpace(b)
        \/ \E i \in 1..Len(b) : \E j \in (i + 1)..Len(b) :
             /\ b[i] = "[" /\ b[j] = "]"
             /\ AllSpace(SubSeq(b, 1, i - 1))
             /\ AllSpace(SubSeq(b, j + 1, Len(b)))
             /\ \A k \in (i + 1)..(j - 1) : b[k] \notin {"\n", "\r"}
  IN \/ Plain(rest)
     \/ rest # <<>> /\ rest[Len(rest)] = "/" /\ Plain(SubSeq(rest, 1, Len(rest) - 1))

IsNameChar(c) ==
  \/ c \in { LowerChars[i] : i \in 1..Len(LowerChars) }
  \/ c \in { UpperChars[i] : i \in 1..Len(UpperChars) }
  \/ c \in { DigitChars[i] : i \in 1..Len(DigitChars) }
  \/ c \in {"_", "-"}

\* exactRe matches at position i of the value
ExactAt(value, i, imageSource) ==
  /\ value[i] = "/"
  /\ startsWith(SubSeq(value, i + 1, Len(value)), imageSource)
  /\ TailMatches(SubSeq(value, i + 1 + Len(imageSource), Len(value)))

\* anyPrefixRe matches at position i of the value
AnyPrefixAt(value, i, name) ==
  /\ value[i] = "/"
  /\ \E p \in 0..(Len(value) - i) :
       /\ p # 1
       /\ p > 1 => /\ value[i + p] = ":"
                   /\ \A k \in (i + 1)..(i + p - 1) : IsNameChar(value[k])
       /\ startsWith(SubSeq(value, i + p + 1, Len(value)), name)
       /\ TailMatches(SubSeq(value, i + p + 1 + Len(name), Len(value)))

\* match.index of (rawValue.match(exactRe) || rawValue.match(anyPrefixRe)),
\* 0 when neither matches
MatchIndex(value, imageSource) ==
  LET exact == { i \in 1..Len(value) : ExactAt(value, i, imageSource) }
      any   == { i \in 1..Len(value) : AnyPrefixAt(value, i, localName(imageSource)) }
      Least(S) == CHOOSE i \in S : \A j \in S : i <= j
  IN IF exact # {} THEN Least(exact)
     ELSE IF any # {} THEN Least(any)
     ELSE 0

\* the UAD_Xpath of a mapping: the value without the image source suffix
uadXpath(value, imageSource) ==
  LET rawValue == trim(value)
      index == MatchIndex(rawValue, imageSource)
      cut == SubSeq(rawValue, 1, index - 1)
  IN IF index = 0 THEN rawValue
     ELSE IF endsWith(cut, <<"/">>) THEN SubSeq(cut, 1, Len(cut) - 1)
     ELSE cut

indent(n) == [ i \in 1..(2 * n) |-> " " ]

Tagged(n, tag, body) ==
  indent(n) \o <<"<">> \o tag \o <<">">> \o body \o <<"<","/">> \o tag \o <<">">>

common == <<"c","o","m","m","o","n">>

\* the seven lines written for one mapping
CommonBlock(m, options) ==
  LET redirector == IF options.wrapPrefix # <<>>
                    THEN options.wrapPrefix \o <<"(">> \o m.key \o <<")">>
                    ELSE m.key
  IN << indent(1) \o <<"<">> \o common \o <<">">>,
        Tagged(2, <<"A","C","I","_","T","a","g","R","e","d","i","r","e","c",
                 "t","o","r">>,
               escapeXml(redirector)),
        Tagged(2, <<"A","C","I","_","T","a","g">>, escapeXml(m.key)),
        Tagged(2, <<"A","C","I","_","I","m","a","g","e">>,
               <<"t","r","u","e">>),
        Tagged(2, <<"A","C","I","_","I","m","a","g","e","S","o","u","r","c","e">>,
               escapeXml(options.imageSource)),
        Tagged(2, <<"U","A","D","_","X","p","a","t","h">>,
               escapeXml(uadXpath(m.value, options.imageSource))),
        indent(1) \o <<"<","/">> \o common \o <<">">> >>

XmlDeclaration ==
  <<"<","?","x","m","l"," ","v","e","r","s","i","o","n","=","\"","1",".",
    "0","\""," ","e","n","c","o","d","i","n","g","=","\"","u","t","f","-",
    "8","\"","?",">">>

ImageMappings == <<"I","m","a","g","e","M","a","p","p","i","n","g","s">>

\* the other variables while buildImageMappings.js runs
MappingFrame ==
  UNCHANGED << doc, obj, todo, signatureCounts, compositeKeyCounters,
               compositeInstanceToNumber, results, totalLeaves,
               leavesWithIncludedAncestors, visited, emitted, call, ret,
               warned, previous, xml1, xml2, obj1, obj2, images1, images2,
               mimeToCategory, updates, cfg, inputText >>

\* fs.readFileSync(inputPath), text.split(/\r?\n/)
ReadMappings ==
  /\ pc = "read" /\ pc' = "lines"
  /\ lines' = splitLines(inputText)
  /\ at' = 1
  /\ MappingFrame /\ UNCHANGED << mappings, out, written >>

\* ... throws: process.exit(2)
ReadMappingsFail ==
  /\ pc = "read" /\ pc' = "exit2"
  /\ MappingFrame /\ UNCHANGED << lines, mappings, out, written, at >>

\* one turn of `for (let raw of lines)`
ParseLine ==
  /\ pc = "lines" /\ at <= Len(lines)
  /\ mappings' = mappings \o parseLine(lines[at])
  /\ at' = at + 1
  /\ MappingFrame /\ UNCHANGED << pc, lines, out, written >>

\* the XML declaration and the opening tag of the root
OpenRoot ==
  /\ pc = "lines" /\ at > Len(lines)
  /\ pc' = "emit"
  /\ out' = << XmlDeclaration, <<"<">> \o ImageMappings \o <<">">> >>
  /\ at' = 1
  /\ MappingFrame /\ UNCHANGED << lines, mappings, written >>

\* one turn of `for (const m of mappings)`
EmitCommon ==
  /\ pc = "emit" /\ at <= Len(mappings)
  /\ out' = out \o CommonBlock(mappings[at], cfg)
  /\ at' = at + 1
  /\ MappingFrame /\ UNCHANGED << pc, lines, mappings, written >>

\* the closing tag of the root, fs.writeFileSync(outputPath, out)
WriteMappings ==
  /\ pc = "emit" /\ at > Len(mappings)
  /\ pc' = "done"
  /\ out' = Append(out, <<"<","/">> \o ImageMappings \o <<">">>)
  /\ written' = Append(written, out')
  /\ MappingFrame /\ UNCHANGED << lines, mappings, at >>

\* ... throws: process.exit(3)
WriteMappingsFail ==
  /\ pc = "emit" /\ at > Len(mappings)
  /\ pc' = "exit3"
  /\ out' = Append(out, <<"<","/">> \o ImageMappings \o <<">">>)
  /\ MappingFrame /\ UNCHANGED << lines, mappings, at, written >>

(***************************************************************************)
(* Inputs: every single line of at most MaxLineLen characters over a       *)
(* letter, the colon, the two comment marks and the blank, and every text  *)
(* of at most MaxLines lines taken from the scenario lines.                *)
(***************************************************************************)
LineChars == { "k", ":", "#", "/", " " }

GenLines == UNION { [ 1..n -> LineChars ] : n \in 0..MaxLineLen }

ScenarioLines ==
  { <<"k",":","v">>,
    <<" ","k"," ",":"," ","v"," ">>,
    <<"#"," ","k",":","v">>,
    <<" "," ","#","k",":","v">>,
    <<"/","/","k",":","v">>,
    <<"a",":","b",":","c">>,
    <<"<","k",">",":","/","x","/","d",":","S","r","c">>,
    <<":","v">>,
    <<"k",":","/","x","/","q",":","S","r","c","[","1","]","/","\r">> }

ShortSource == [ MappingDefaults EXCEPT !.imageSource = <<"d",":","S","r","c">> ]

RECURSIVE TextsOf(_)
TextsOf(n) ==
  IF n = 1 THEN ScenarioLines
  ELSE { t \o <<"\n">> \o l : t \in TextsOf(n - 1), l \in ScenarioLines }

MappingInputs ==
  (GenLines \X { MappingDefaults })
  \cup ((UNION { TextsOf(n) : n \in 1..MaxLines }) \X { ShortSource })
  \cup { << <<"F","r","o","n","t"," ",":"," ","/","/","d",":","I","M","A","G",
           "E","/","d",":","I","m","a","g","e","F","i","l","e","L","o","c",
           "a","t","i","o","n","I","d","e","n","t","i","f","i","e","r">>,
            MappingDefaults >> }

MappingsInit ==
  /\ pc = "read"
  /\ \E input \in MappingInputs : inputText = input[1] /\ cfg = input[2]
  /\ lines = <<>> /\ mappings = <<>> /\ out = <<>> /\ at = 0
  /\ xml1 = <<>> /\ xml2 = <<>> /\ obj1 = <<>> /\ obj2 = <<>>
  /\ images1 = <<>> /\ images2 = <<>> /\ mimeToCategory = <<>> /\ updates = 0
  /\ doc = <<>> /\ obj = <<>> /\ todo = <<>>
  /\ signatureCounts = <<>> /\ compositeKeyCounters = <<>>
  /\ compositeInstanceToNumber = <<>>
  /\ results = <<>> /\ totalLeaves = 0 /\ leavesWithIncludedAncestors = 0
  /\ written = <<>> /\ visited = <<>> /\ emitted = <<>>
  /\ call = <<>> /\ ret = <<>> /\ warned = <<>> /\ previous = <<>>

MappingsNext ==
  \/ ReadMappings
  \/ ReadMappingsFail
  \/ ParseLine
  \/ OpenRoot
  \/ EmitCommon
  \/ WriteMappings
  \/ WriteMappingsFail

Mappings == MappingsInit /\ [][MappingsNext]_vars

(***************************************************************************)
(* syncImageCategory.js: both documents are parsed, the MIME -> category   *)
(* Map is built from the IMAGE nodes of the first, the IMAGE nodes of the  *)
(* second get the mapped category, and the second object tree is built     *)
(* back into a document.  A node reference is the number of the element    *)
(* in its tree; 0 stands for the object { '#text': val } that              *)
(* findImageNodes makes up for an IMAGE holding text only (el keeps the    *)
(* element it was made up for; no action reads it).                        *)
(***************************************************************************)
MaxImages == 2

MIMETypeIdentifier ==
  <<"M","I","M","E","T","y","p","e","I","d","e","n","t","i","f","i","e",
    "r">>

\* String.prototype.toLowerCase
toLowerCase(s) ==
  [ i \in 1..Len(s) |->
      IF \E k \in 1..Len(UpperChars) : UpperChars[k] = s[i]
      THEN LowerChars[CHOOSE k \in 1..Len(UpperChars) : UpperChars[k] = s[i]]
      ELSE s[i] ]

RECURSIVE Flatten(_)
Flatten(seqs) == IF seqs = <<>> THEN <<>> ELSE Head(seqs) \o Flatten(Tail(seqs))

\* a plain string as a value of the object tree
StringValue(chars) ==
  [ type |-> "string", text |-> chars, attrs |-> NoAttrs, hasText |-> FALSE,
    keys |-> <<>> ]

\* !val of a property: only the empty string is falsy here
IsFalsy(o, g) ==
  Len(g.els) = 1 /\ o[g.els[1]].type = "string" /\ o[g.els[1]].text = <<>>

RECURSIVE findImageNodes(_, _)
findImageNodes(o, node) ==
  IF o[node].type # "object" THEN <<>>
  ELSE
    LET keys == o[node].keys
        FromKey(g) ==
          IF IsFalsy(o, g) THEN <<>>
          ELSE IF g.tag = IMAGE
          THEN IF Len(g.els) > 1
               THEN Flatten([ e \in 1..Len(g.els) |->
                                IF o[g.els[e]].type = "object"
                                THEN << [ ref |-> g.els[e], text |-> <<>>, el |-> g.els[e] ] >>
                                ELSE <<>> ])
               ELSE IF o[g.els[1]].type = "object"
               THEN << [ ref |-> g.els[1], text |-> <<>>, el |-> g.els[1] ] >>
               ELSE << [ ref |-> 0, text |-> o[g.els[1]].text, el |-> g.els[1] ] >>
          ELSE Flatten([ e \in 1..Len(g.els) |-> findImageNodes(o, g.els[e]) ])
    IN Flatten([ k \in 1..Len(keys) |-> FromKey(keys[k]) ])

\* Object.keys(node).find(k => k.toLowerCase() === childName.toLowerCase()):
\* the position of the key among the child tags, 0 when there is none
\* (an attribute key "@_..." and "#text" are never equal to a child name)
FindKey(o, img, childName) ==
  IF img.ref = 0 THEN 0
  ELSE LET keys == o[img.ref].keys
           hits == { g \in 1..Len(keys) :
                       toLowerCase(keys[g].tag) = toLowerCase(childName) }
       IN IF hits = {} THEN 0 ELSE CHOOSE g \in hits : \A h \in hits : g <= h

\* getChildText of syncImageCategory.js
getChildTextOf(o, img, childName) ==
  LET key == FindKey(o, img, childName)
      els == o[img.ref].keys[key].els
      val == o[els[1]]
  IN IF key = 0 THEN Null
     ELSE IF Len(els) > 1 THEN Null
     ELSE IF val.type = "string" THEN val.text
     ELSE IF val.hasText THEN val.text
     ELSE Null

\* setChildText: the tree after node[key] = text
setChildText(o, img, childName, chars) ==
  LET existingKey == FindKey(o, img, childName)
      els == o[img.ref].keys[existingKey].els
      new == Cardinality(DOMAIN o)
  IN IF img.ref = 0 THEN o
     ELSE IF existingKey # 0
     THEN [ o EXCEPT ![els[1]] = StringValue(chars),
                     ![img.ref].keys[existingKey].els = << els[1] >> ]
     ELSE [ j \in 0..new |->
              IF j = new THEN StringValue(chars)
              ELSE IF j = img.ref
              THEN [ o[j] EXCEPT !.keys = Append(@, [ tag |-> childName,
                                                      els |-> << new >> ]) ]
              ELSE o[j] ]

\* mimeToCategory.set(mime, cat) whatever the Map holds
rememberLastCategory(map, mime, cat) == MapSet(map, Str(mime), cat)

\* if (!mimeToCategory.has(mime)) mimeToCategory.set(mime, cat)
rememberCategory(map, mime, cat) ==
  IF Str(mime) \in DOMAIN map THEN map ELSE MapSet(map, Str(mime), cat)

\* getChildText(img, 'ImageCategoryType') || null
CategoryOrNull(o, img) ==
  LET cat == getChildTextOf(o, img, ImageCategoryType)
  IN IF cat = <<>> THEN Null ELSE cat

\* builder.build(obj2): the elements under a node, in key order
RECURSIVE build(_, _, _)
build(o, node, depth) ==
  LET keys == o[node].keys
      One(tag, el) == << Elem(depth, tag, o[el].attrs, o[el].text) >>
                      \o build(o, el, depth + 1)
  IN Flatten([ k \in 1..Len(keys) |->
                 Flatten([ e \in 1..Len(keys[k].els) |->
                             One(keys[k].tag, keys[k].els[e]) ]) ])

\* the other variables while syncImageCategory.js runs
SyncFrame ==
  UNCHANGED << doc, cfg, obj, todo, signatureCounts, compositeKeyCounters,
               compositeInstanceToNumber, results, totalLeaves,
               leavesWithIncludedAncestors, visited, emitted, call, ret,
               warned, inputText, lines, mappings, out, xml1 >>

\* readFileOrExit twice, parser.parse twice, findImageNodes(obj1)
ReadBoth ==
  /\ pc = "read" /\ pc' = "map"
  /\ obj1' = Parse(xml1)
  /\ obj2' = Parse(xml2)
  /\ images1' = findImageNodes(obj1', 0)
  /\ at' = 1
  /\ SyncFrame
  /\ UNCHANGED << xml2, images2, mimeToCategory, updates, written, previous >>

\* ... process.exit(2)
ReadBothFail ==
  /\ pc = "read" /\ pc' = "exit2"
  /\ SyncFrame
  /\ UNCHANGED << xml2, obj1, obj2, images1, images2, mimeToCategory, updates,
                  written, previous, at >>

\* one turn of `for (const img of images1)`
MapImage ==
  /\ pc = "map" /\ at <= Len(images1)
  /\ LET mime == getChildTextOf(obj1, images1[at], MIMETypeIdentifier)
     IN mimeToCategory' =
          IF mime = Null \/ mime = <<>> THEN mimeToCategory
          ELSE rememberCategory(mimeToCategory, mime,
                                CategoryOrNull(obj1, images1[at]))
  /\ at' = at + 1
  /\ SyncFrame
  /\ UNCHANGED << pc, xml2, obj1, obj2, images1, images2, updates, written,
                  previous >>

\* findImageNodes(obj2), let updates = 0
FindSecond ==
  /\ pc = "map" /\ at > Len(images1)
  /\ pc' = "update"
  /\ images2' = findImageNodes(obj2, 0)
  /\ updates' = 0
  /\ at' = 1
  /\ SyncFrame
  /\ UNCHANGED << xml2, obj1, obj2, images1, mimeToCategory, written, previous >>

\* one turn of `for (const img of images2)`
UpdateImage ==
  /\ pc = "update" /\ at <= Len(images2)
  /\ LET img == images2[at]
         mime == getChildTextOf(obj2, img, MIMETypeIdentifier)
         newCat == mimeToCategory[Str(mime)]
         changes == /\ mime # Null /\ mime # <<>>
                    /\ Str(mime) \in DOMAIN mimeToCategory
                    /\ newCat # Null
                    /\ getChildTextOf(obj2, img, ImageCategoryType) # newCat
     IN IF changes
        THEN /\ obj2' = setChildText(obj2, img, ImageCategoryType, newCat)
             /\ updates' = updates + 1
        ELSE UNCHANGED << obj2, updates >>
  /\ at' = at + 1
  /\ SyncFrame
  /\ UNCHANGED << pc, xml2, obj1, images1, images2, mimeToCategory, written,
                  previous >>

\* builder.build(obj2), fs.writeFileSync(outPath, updatedXml2)
WriteSync ==
  /\ pc = "update" /\ at > Len(images2)
  /\ pc' = "done"
  /\ written' = Append(written, build(obj2, 0, 0))
  /\ SyncFrame
  /\ UNCHANGED << xml2, obj1, obj2, images1, images2, mimeToCategory, updates,
                  previous, at >>

\* ... process.exit(3)
WriteSyncFail ==
  /\ pc = "update" /\ at > Len(images2)
  /\ pc' = "exit3"
  /\ SyncFrame
  /\ UNCHANGED << xml2, obj1, obj2, images1, images2, mimeToCategory, updates,
                  written, previous, at >>

\* what a run of the sync leaves behind for comparison
SyncRecord ==
  [ xml2 |-> xml2, obj2 |-> obj2, images2 |-> images2, updates |-> updates ]

\* the script run again, as a new process, with the produced document as
\* the second one
SyncAgain ==
  /\ pc = "done" /\ previous = <<>>
  /\ pc' = "read"
  /\ previous' = << SyncRecord >>
  /\ xml2' = written[Len(written)]
  /\ obj1' = <<>> /\ obj2' = <<>>
  /\ images1' = <<>> /\ images2' = <<>>
  /\ mimeToCategory' = <<>>
  /\ updates' = 0
  /\ at' = 0
  /\ SyncFrame /\ UNCHANGED written

(***************************************************************************)
(* Inputs: documents of at most MaxImages image elements under one root.   *)
(* An image element has a MIMETypeIdentifier child, an ImageCategoryType   *)
(* child, both or neither; in the second document it may also be spelled   *)
(* Image, hold text only, or sit inside the image element before it.       *)
(* Every first document is run against two second ones, and every second   *)
(* document against three first ones.                                      *)
(***************************************************************************)
ImageMixedCase == <<"I","m","a","g","e">>

Absent == << "absent" >>

MimeA == << "a" >>

MimeB == << "b" >>

Shape(tag, mime, cat, nested) ==
  [ tag |-> tag, mime |-> mime, cat |-> cat, nested |-> nested ]

Shapes1 ==
  { Shape(IMAGE, MimeA, Front, FALSE), Shape(IMAGE, MimeA, Rear, FALSE),
    Shape(IMAGE, MimeA, Absent, FALSE), Shape(IMAGE, MimeB, Rear, FALSE),
    Shape(IMAGE, MimeA, <<>>, FALSE) }

Shapes2 ==
  { Shape(IMAGE, MimeA, Front, n) : n \in BOOLEAN }
  \cup { Shape(IMAGE, MimeA, Rear, n) : n \in BOOLEAN }
  \cup { Shape(IMAGE, MimeA, Absent, FALSE), Shape(IMAGE, MimeB, Front, FALSE),
         Shape(IMAGE, Absent, Rear, FALSE), Shape(IMAGE, <<>>, Rear, FALSE),
         Shape(ImageMixedCase, MimeA, Rear, FALSE) }

\* the elements of one image element at the given depth
ImageElems(shape, depth) ==
  << Elem(depth, shape.tag, NoAttrs, <<>>) >>
  \o (IF shape.mime = Absent THEN <<>>
      ELSE << Elem(depth + 1, MIMETypeIdentifier, NoAttrs, shape.mime) >>)
  \o (IF shape.cat = Absent THEN <<>>
      ELSE << Elem(depth + 1, ImageCategoryType, NoAttrs, shape.cat) >>)

RECURSIVE ImagesFrom(_, _, _)
ImagesFrom(shapes, i, depth) ==
  IF i > Len(shapes) THEN <<>>
  ELSE LET d == IF i > 1 /\ shapes[i].nested THEN depth + 1 ELSE 1
       IN ImageElems(shapes[i], d) \o ImagesFrom(shapes, i + 1, d)

SyncDoc(shapes) ==
  << Elem(0, <<"R">>, NoAttrs, <<>>) >> \o ImagesFrom(shapes, 1, 1)

SyncDocs(kinds) ==
  { SyncDoc(shapes) : shapes \in UNION { [ 1..n -> kinds ] : n \in 0..MaxImages } }

\* an IMAGE holding text only next to one with children, and on its own
DocTextImages ==
  { << Elem(0, <<"R">>, NoAttrs, <<>>), Elem(1, IMAGE, NoAttrs, T) >>,
    << Elem(0, <<"R">>, NoAttrs, <<>>), Elem(1, IMAGE, NoAttrs, T) >>
    \o ImageElems(Shape(IMAGE, MimeA, Rear, FALSE), 1) }

\* first documents for the update loop: one entry, a null entry, two entries
FirstScenarios ==
  { SyncDoc(<< Shape(IMAGE, MimeA, Rear, FALSE) >>),
    SyncDoc(<< Shape(IMAGE, MimeA, Absent, FALSE), Shape(IMAGE, MimeA, Front, FALSE) >>),
    SyncDoc(<< Shape(IMAGE, MimeA, Front, FALSE), Shape(IMAGE, MimeB, Rear, FALSE) >>) }

\* second documents for the Map loop
SecondScenarios ==
  { SyncDoc(<<>>), SyncDoc(<< Shape(IMAGE, MimeA, Front, FALSE) >>) }

SyncInputs ==
  (SyncDocs(Shapes1) \X SecondScenarios)
  \cup (FirstScenarios \X (SyncDocs(Shapes2) \cup DocTextImages))

SyncInit ==
  /\ pc = "read"
  /\ \E input \in SyncInputs : xml1 = input[1] /\ xml2 = input[2]
  /\ obj1 = <<>> /\ obj2 = <<>>
  /\ images1 = <<>> /\ images2 = <<>> /\ mimeToCategory = <<>> /\ updates = 0
  /\ at = 0
  /\ inputText = <<>> /\ lines = <<>> /\ mappings = <<>> /\ out = <<>>
  /\ doc = <<>> /\ cfg = <<>> /\ obj = <<>> /\ todo = <<>>
  /\ signatureCounts = <<>> /\ compositeKeyCounters = <<>>
  /\ compositeInstanceToNumber = <<>>
  /\ results = <<>> /\ totalLeaves = 0 /\ leavesWithIncludedAncestors = 0
  /\ written = <<>> /\ visited = <<>> /\ emitted = <<>>
  /\ call = <<>> /\ ret = <<>> /\ warned = <<>> /\ previous = <<>>

SyncNext ==
  \/ ReadBoth
  \/ ReadBothFail
  \/ MapImage
  \/ FindSecond
  \/ UpdateImage
  \/ WriteSync
  \/ WriteSyncFail
  \/ SyncAgain

Sync == SyncInit /\ [][SyncNext]_vars

(***************************************************************************)
(* What the claims speak about, read off the document itself.              *)
(***************************************************************************)
Range(f) == { f[i] : i \in DOMAIN f }

Elements == 1..Len(doc)

DocIsLeaf(i) == Children(doc, i) = <<>>

DocBareUpper(i) == toUpperCase(bareTag(doc[i].tag))

HasSelectedAncestor(i) ==
  \E a \in Range(Chain(doc, i)) : DocBareUpper(a) \in cfg.includeElements

\* the leaves that are to produce a line
LineLeaves ==
  { i \in Elements :
      DocIsLeaf(i) /\ trim(doc[i].text) # <<>> /\ HasSelectedAncestor(i) }

LinesOf(i) == { k \in 1..Len(emitted) : emitted[k].leaf = i }

TraversalOver == pc \in {"done", "exit4"}

IsGrouped(e) == e.branch \in {"composite", "anchor"}

\* the group anchor and the first frame of the slice of a grouped line
AnchorOf(e) == e.inside[Len(e.inside)].node

SliceStartOf(e) == e.inside[1].node

\* all steps of a line in order, and those that render selected ancestors
AllSteps(e) == e.inside \o e.after

AncestorSteps(e) ==
  SelectSeq(AllSteps(e), LAMBDA st : st.node \in Range(e.included))

\* the leaf was appended as a step of its own
LeafAppended(e) ==
  /\ e.leaf \notin Range(e.included)
  /\ e.after # <<>>
  /\ e.after[Len(e.after)].node = e.leaf

LastIncluded(e) == e.included[Len(e.included)]

\* the separator the adjacency rule asks for between two elements of a chain
AdjacencySep(earlier, later) ==
  IF Parent(doc, later) = earlier THEN <<"/">> ELSE <<"/","/">>

IsDigit(c) == c \in Range(DigitChars)

\* the text ends in a numeric index [n]
EndsWithIndex(text) ==
  /\ Len(text) >= 3
  /\ text[Len(text)] = "]"
  /\ IsDigit(text[Len(text) - 1])

\* the text holds a numeric index [n] somewhere
ContainsIndex(text) ==
  \E i \in 1..(Len(text) - 1) : text[i] = "[" /\ IsDigit(text[i + 1])

\* number of elements up to i, in document order, that satisfy P
RankAmong(i, P(_)) == Cardinality({ j \in 1..i : P(j) })

DocSignature(j) == Str(Signature(doc[j].tag, obj[j]))

(***************************************************************************)
(* C1: after a complete run there is exactly one output line per leaf      *)
(* with non-empty trimmed text and a selected ancestor (itself included),  *)
(* and none for any other element.                                         *)
(***************************************************************************)
C1_LineCount ==
  TraversalOver =>
    /\ Len(results) = Cardinality(LineLeaves)
    /\ Len(emitted) = Len(results)
    /\ \A i \in Elements :
         Cardinality(LinesOf(i)) = IF i \in LineLeaves THEN 1 ELSE 0
    /\ pc = "done" => Len(written[1]) = Cardinality(LineLeaves)

C1_Witness ==
  /\ pc = "done"
  /\ Cardinality(LineLeaves) >= 1
  /\ \E i \in Elements : DocIsLeaf(i) /\ ~HasSelectedAncestor(i)
  /\ \E i \in Elements :
       DocIsLeaf(i) /\ HasSelectedAncestor(i) /\ trim(doc[i].text) = <<>>

(***************************************************************************)
(* C2: the n-th element of a signature in document order receives          *)
(* signature index n.                                                      *)
(***************************************************************************)
C2_IndexInDocumentOrder ==
  \A k \in 1..Len(visited) :
    visited[k].assignedIndex =
      RankAmong(visited[k].el, LAMBDA j : DocSignature(j) = visited[k].sig)

(***************************************************************************)
(* C3: two lines grouped under the same group-anchor element carry the     *)
(* same composite number, whichever grouped branch addresses them.         *)
(***************************************************************************)
C3_SameAnchorSameNumber ==
  \A a, b \in Range(emitted) :
    (IsGrouped(a) /\ IsGrouped(b) /\ AnchorOf(a) = AnchorOf(b))
      => a.number = b.number

(***************************************************************************)
(* C4: composite instances that share a composite key carry numbers that   *)
(* are distinct and increase in document order of the instances.           *)
(***************************************************************************)
C4_NumbersInDocumentOrder ==
  \A a, b \in Range(emitted) :
    (IsGrouped(a) /\ IsGrouped(b) /\ a.key = b.key /\ AnchorOf(a) < AnchorOf(b))
      => a.number < b.number

(***************************************************************************)
(* C5, as claimed: in the document of three PROPERTY elements with a       *)
(* Front and a Rear IMAGE each, the six PROPERTY..IMAGE instances are      *)
(* numbered 1..6 in document order.                                        *)
(***************************************************************************)
IsImage(j) == DocBareUpper(j) = IMAGE

FrontRearRun == doc = DocFrontRear /\ cfg = DefaultCfg /\ TraversalOver

C5_NumberedOneToSix ==
  FrontRearRun =>
    \A e \in Range(emitted) :
      IsGrouped(e) /\ e.number = RankAmong(AnchorOf(e), IsImage)

(***************************************************************************)
(* C5, amended: the six instances are numbered per composite key, the      *)
(* three Front instances 1,2,3 and the three Rear instances 1,2,3 in       *)
(* document order, and the text leaves under one IMAGE (two each) all      *)
(* carry that IMAGE's number.                                              *)
(***************************************************************************)
C5_NumberedPerCategory ==
  FrontRearRun =>
    /\ Len(emitted) = 12
    /\ \A e \in Range(emitted) :
         /\ e.branch = "composite"
         /\ DocBareUpper(SliceStartOf(e)) = PROPERTY
         /\ IsImage(AnchorOf(e))
         /\ AnchorOf(e) = Parent(doc, e.leaf)
         /\ SliceStartOf(e) = Parent(doc, AnchorOf(e))
         /\ e.number =
              RankAmong(AnchorOf(e),
                        LAMBDA j : DocSignature(j) = DocSignature(AnchorOf(e)))
    /\ \A i \in { j \in Elements : IsImage(j) } :
         Cardinality({ k \in 1..Len(emitted) : AnchorOf(emitted[k]) = i }) = 2
    /\ { e.number : e \in Range(emitted) } = {1, 2, 3}

C5_Witness ==
  /\ doc = DocFrontRear /\ pc = "done"
  /\ \E e \in Range(emitted) : e.number = 3 /\ e.leaf = Len(doc)

(***************************************************************************)
(* C6: wherever two consecutive selected ancestors are rendered, in the    *)
(* slice, after the group anchor or in the plain path, they are joined     *)
(* by "/" exactly when the later one is the child of the earlier one in    *)
(* the ancestor chain, and by "//" otherwise.                              *)
(***************************************************************************)
C6_AncestorJoins ==
  \A e \in Range(emitted) :
    \A i \in 2..Len(AncestorSteps(e)) :
      AncestorSteps(e)[i].sep =
        AdjacencySep(AncestorSteps(e)[i - 1].node, AncestorSteps(e)[i].node)

C6_Witness ==
  /\ \E e \in Range(emitted) :
       /\ e.branch = "composite"
       /\ \E i \in 2..Len(e.inside) : e.inside[i].sep = <<"/","/">>
  /\ \E e \in Range(emitted) :
       \E i \in 2..Len(AncestorSteps(e)) : AncestorSteps(e)[i].sep = <<"/">>

(***************************************************************************)
(* C7, as claimed: an appended leaf step is joined by the adjacency rule   *)
(* in every rendering branch.                                              *)
(***************************************************************************)
LeafSep(e) == e.after[Len(e.after)].sep

C7_LeafJoinAdjacency ==
  \A e \in Range(emitted) :
    LeafAppended(e) => LeafSep(e) = AdjacencySep(LastIncluded(e), e.leaf)

(***************************************************************************)
(* C7, amended: an appended leaf step is joined by the adjacency rule in   *)
(* the two grouped branches, and always by "//" in the plain filtered      *)
(* path, also when the leaf is the child of the last selected ancestor.    *)
(***************************************************************************)
C7_LeafJoinByBranch ==
  \A e \in Range(emitted) :
    LeafAppended(e) =>
      LeafSep(e) = IF e.branch = "plain" THEN <<"/","/">>
                   ELSE AdjacencySep(LastIncluded(e), e.leaf)

C7_Witness ==
  /\ \E e \in Range(emitted) :
       /\ e.branch = "plain" /\ LeafAppended(e)
       /\ Parent(doc, e.leaf) = LastIncluded(e)
  /\ \E e \in Range(emitted) :
       IsGrouped(e) /\ LeafAppended(e) /\ LeafSep(e) = <<"/">>

(***************************************************************************)
(* C8: the step that addresses the leaf carries no numeric index, for      *)
(* every inclusion set.                                                    *)
(***************************************************************************)
LeafStep(e) == AllSteps(e)[Len(AllSteps(e))]

C8_LeafStepNoIndex ==
  \A e \in Range(emitted) :
    LeafStep(e).node = e.leaf /\ ~EndsWithIndex(LeafStep(e).text)

(***************************************************************************)
(* C9: the document PROPERTY > IMAGE > Category "Front" under the default  *)
(* inclusion set yields the single line                                    *)
(* Front : //d:PROPERTY/d:IMAGE//d:Category                                *)
(***************************************************************************)
C9_CategoryLine ==
  (doc = DocCategory /\ cfg = DefaultCfg /\ pc = "done") =>
    /\ results = << "Front : //d:PROPERTY/d:IMAGE//d:Category" >>
    /\ written = << results >>

C9_Witness ==
  doc = DocCategory /\ pc = "done" /\ Len(results) = 1

(***************************************************************************)
(* C10, as claimed: the two Caption leaves under the IMAGE siblings with   *)
(* ValuationUseType Exterior and Interior yield two lines whose IMAGE      *)
(* step carries the predicate and whose xpath holds no numeric index.      *)
(***************************************************************************)
UseTypeRun == doc = DocUseType /\ cfg = DefaultCfg /\ TraversalOver

C10_NoNumericIndex ==
  UseTypeRun =>
    /\ Len(results) = 2
    /\ \A e \in Range(emitted) : ~ContainsIndex(e.xpath)

(***************************************************************************)
(* C10, amended: exactly two lines are emitted, the IMAGE step of each     *)
(* carries its own predicate, no step carries a numeric index, and the     *)
(* only number of each xpath is the composite number [1] of its group.     *)
(***************************************************************************)
C10_PredicateAndGroupNumber ==
  UseTypeRun =>
    /\ results = << "a : (//d:IMAGE[@ValuationUseType='Exterior'])[1]/d:Caption",
                    "b : (//d:IMAGE[@ValuationUseType='Interior'])[1]/d:Caption" >>
    /\ \A e \in Range(emitted) :
         /\ e.number = 1
         /\ \A i \in 1..Len(AllSteps(e)) : ~EndsWithIndex(AllSteps(e)[i].text)

C10_Witness ==
  doc = DocUseType /\ pc = "done" /\ Len(results) = 2

(***************************************************************************)
(* C11: predicateStringForElement gives the child-text predicate when the  *)
(* element is of the filter-parent type and has a direct filter-child      *)
(* with non-empty trimmed text, otherwise the attribute predicate when     *)
(* the configured attribute is there with a non-empty trimmed value,       *)
(* otherwise the empty string; never both.                                 *)
(***************************************************************************)
Parsed == pc \in {"traverse", "done", "exit4"}

\* the direct filter-children of j that hold text
FilterKids(j) ==
  { k \in Range(Children(doc, j)) :
      /\ toUpperCase(bareTag(doc[k].tag)) = toUpperCase(cfg.filterChild)
      /\ trim(doc[k].text) # <<>> }

DocChildRule(j) ==
  /\ cfg.filterParent # <<>> /\ cfg.filterChild # <<>>
  /\ DocBareUpper(j) = cfg.filterParent
  /\ FilterKids(j) # {}

DocAttrRule(j) ==
  /\ cfg.attrName # <<>>
  /\ cfg.attrName \in DOMAIN doc[j].attrs
  /\ trim(doc[j].attrs[cfg.attrName]) # <<>>

Bracketed(name, value) ==
  <<"[","@">> \o name \o <<"=">> \o formatXPathLiteral(value) \o <<"]">>

ExpectedPredicate(j) ==
  IF DocChildRule(j)
  THEN Bracketed(cfg.filterChild,
                 trim(doc[FirstOr(FilterKids(j), 0)].text))
  ELSE IF DocAttrRule(j)
  THEN Bracketed(cfg.attrName, doc[j].attrs[cfg.attrName])
  ELSE <<>>

C11_PredicateFirstMatch ==
  Parsed =>
    \A j \in Elements :
      predicateStringForElement(doc[j].tag, obj[j]) = ExpectedPredicate(j)

(***************************************************************************)
(* C12: buildStepWithIndex gives <nsShort>:<bareTag><predicate> and        *)
(* appends [assignedIndex] exactly when alwaysIncludeIndex is true or      *)
(* assignedIndex > 1; a step of buildNormalStep has no [1] for index 1     *)
(* and ends in [n] for every index n > 1.                                  *)
(***************************************************************************)
Returned(fn) == pc = "returned" /\ call.fn = fn

StepBase(j) ==
  cfg.nsShort \o <<":">> \o bareTag(doc[j].tag)
  \o predicateStringForElement(doc[j].tag, obj[j])

IndexSuffix(n) == <<"[">> \o Digits(n) \o <<"]">>

C12_IndexShown ==
  /\ Returned("buildStepWithIndex") =>
       ret = StepBase(call.el)
             \o (IF call.alwaysIncludeIndex \/ call.assignedIndex > 1
                 THEN IndexSuffix(call.assignedIndex) ELSE <<>>)
  /\ Returned("buildNormalStep") =>
       /\ call.assignedIndex = 1 => ret = StepBase(call.el) /\ ~EndsWithIndex(ret)
       /\ call.assignedIndex > 1 =>
            ret = StepBase(call.el) \o IndexSuffix(call.assignedIndex)

C12_Witness ==
  /\ Returned("buildNormalStep")
  /\ call.assignedIndex = 1
  /\ predicateStringForElement(doc[call.el].tag, obj[call.el]) # <<>>

(***************************************************************************)
(* C13: formatXPathLiteral wraps a value without single quote in single    *)
(* quotes, otherwise one without double quote in double quotes, and        *)
(* otherwise gives concat(...) of the non-empty segments between the       *)
(* single quotes, each single-quoted, with one "'" token per single quote  *)
(* of the value, all in the order of the value.                            *)
(***************************************************************************)
Quoted(q, content) == <<q>> \o content \o <<q>>

\* the arguments, read off the value one character at a time
RECURSIVE ArgsFrom(_, _, _)
ArgsFrom(value, i, segment) ==
  IF i > Len(value)
  THEN IF segment = <<>> THEN <<>> ELSE << Quoted(SQ, segment) >>
  ELSE IF value[i] = SQ
  THEN (IF segment = <<>> THEN <<>> ELSE << Quoted(SQ, segment) >>)
       \o << Quoted(DQ, <<SQ>>) >> \o ArgsFrom(value, i + 1, <<>>)
  ELSE ArgsFrom(value, i + 1, Append(segment, value[i]))

ConcatOpen == <<"c","o","n","c","a","t","(">>

C13_LiteralForm ==
  Returned("formatXPathLiteral") =>
    ret = IF SQ \notin Range(call.value) THEN Quoted(SQ, call.value)
          ELSE IF DQ \notin Range(call.value) THEN Quoted(DQ, call.value)
          ELSE ConcatOpen \o join(ArgsFrom(call.value, 1, <<>>), <<",">>)
               \o <<")">>

C13_Witness ==
  /\ Returned("formatXPathLiteral")
  /\ Len(call.value) >= 4
  /\ call.value[1] = SQ /\ call.value[2] = SQ /\ call.value[3] = DQ

(***************************************************************************)
(* C14: for a value holding both quotes, the contents of the quoted        *)
(* arguments of the concat(...) that formatXPathLiteral gives,             *)
(* concatenated in order, are the value again, and no single-quoted        *)
(* argument holds a single quote.                                          *)
(***************************************************************************)
\* the quoted arguments of a literal from position i on: a quote, the text
\* up to the next such quote, then a comma and the next argument, if any
RECURSIVE ReadArgs(_, _)
ReadArgs(lit, i) ==
  IF i > Len(lit) THEN <<>>
  ELSE LET closing == { j \in (i + 1)..Len(lit) : lit[j] = lit[i] }
           j == FirstOr(closing, Len(lit) + 1)
           arg == [ quote |-> lit[i], content |-> SubSeq(lit, i + 1, j - 1) ]
       IN IF j < Len(lit) /\ lit[j + 1] = ","
          THEN <<arg>> \o ReadArgs(lit, j + 2)
          ELSE <<arg>>

IsConcat(lit) ==
  Len(lit) > Len(ConcatOpen) /\ SubSeq(lit, 1, Len(ConcatOpen)) = ConcatOpen

LiteralArgs(lit) ==
  ReadArgs(lit, IF IsConcat(lit) THEN Len(ConcatOpen) + 1 ELSE 1)

RECURSIVE Contents(_)
Contents(args) ==
  IF args = <<>> THEN <<>> ELSE Head(args).content \o Contents(Tail(args))

\* the literal written again from the arguments read from it
Rewritten(lit) ==
  IF IsConcat(lit)
  THEN ConcatOpen
       \o join([ k \in 1..Len(LiteralArgs(lit)) |->
                   Quoted(LiteralArgs(lit)[k].quote, LiteralArgs(lit)[k].content) ],
               <<",">>)
       \o <<")">>
  ELSE Quoted(LiteralArgs(lit)[1].quote, LiteralArgs(lit)[1].content)

BothQuotes(value) == SQ \in Range(value) /\ DQ \in Range(value)

C14_RoundTrip ==
  (Returned("formatXPathLiteral") /\ BothQuotes(call.value)) =>
    /\ IsConcat(ret)
    /\ Rewritten(ret) = ret
    /\ Len(LiteralArgs(ret)) >= 2
    /\ Contents(LiteralArgs(ret)) = call.value
    /\ \A k \in 1..Len(LiteralArgs(ret)) :
         /\ LiteralArgs(ret)[k].quote \in {SQ, DQ}
         /\ LiteralArgs(ret)[k].quote \notin Range(LiteralArgs(ret)[k].content)

C14_Witness ==
  /\ Returned("formatXPathLiteral")
  /\ BothQuotes(call.value)
  /\ "," \in Range(call.value)
  /\ Len(LiteralArgs(ret)) >= 3

(***************************************************************************)
(* C15, as claimed: the group anchor is the first selected ancestor at or  *)
(* after the start anchor that is of the filter-parent type and carries a  *)
(* predicate; one that lies before the start anchor is not chosen when     *)
(* another lies at or after it.                                            *)
(***************************************************************************)
Pred(j) == predicateStringForElement(doc[j].tag, obj[j])

IsAnchorCandidate(j) ==
  cfg.filterParent # <<>> /\ DocBareUpper(j) = cfg.filterParent /\ Pred(j) # <<>>

\* the selected ancestors of a line that could be its group anchor
Candidates(e) == { n \in Range(e.included) : IsAnchorCandidate(n) }

CandidatesFromStart(e) == { n \in Candidates(e) : n >= e.start }

C15_AnchorAtOrAfterStart ==
  \A e \in Range(emitted) :
    CandidatesFromStart(e) # {} =>
      IsGrouped(e) /\ AnchorOf(e) = FirstOr(CandidatesFromStart(e), 0)

(***************************************************************************)
(* C15, amended: the group anchor is the first selected ancestor, counted  *)
(* from the beginning of the filtered list, that is of the filter-parent   *)
(* type and carries a predicate; the composite slice is used only when it  *)
(* lies at or after the start anchor, and when it lies before the start    *)
(* anchor it is still the anchor, also when another candidate lies at or   *)
(* after the start anchor.                                                 *)
(***************************************************************************)
C15_AnchorFirstOverall ==
  \A e \in Range(emitted) :
    /\ e.image = FirstOr(Candidates(e), 0)
    /\ Candidates(e) # {} =>
         /\ IsGrouped(e)
         /\ AnchorOf(e) = FirstOr(Candidates(e), 0)
         /\ e.branch = "composite" <=> e.start <= AnchorOf(e)

C15_Witness ==
  \E e \in Range(emitted) :
    /\ e.branch = "anchor"
    /\ CandidatesFromStart(e) # {}
    /\ AnchorOf(e) < e.start

(***************************************************************************)
(* C16, as claimed: inside the parenthesised slice a frame other than the  *)
(* group anchor shows its index only when it is greater than 1, and the    *)
(* group anchor shows none.                                                *)
(***************************************************************************)
AssignedIndexOf(n) ==
  visited[CHOOSE k \in 1..Len(visited) : visited[k].el = n].assignedIndex

C16_SliceIndexAboveOne ==
  \A e \in Range(emitted) :
    e.branch = "composite" =>
      \A i \in 1..Len(e.inside) :
        e.inside[i].text =
          StepBase(e.inside[i].node)
          \o (IF e.inside[i].node # AnchorOf(e)
                 /\ AssignedIndexOf(e.inside[i].node) > 1
              THEN IndexSuffix(AssignedIndexOf(e.inside[i].node)) ELSE <<>>)

(***************************************************************************)
(* C16, amended: inside the parenthesised slice every frame whose bare     *)
(* tag is not the filter-parent type shows its index always, [1] as well,  *)
(* and every frame of the filter-parent type, the group anchor among       *)
(* them, shows none.                                                       *)
(***************************************************************************)
C16_SliceIndexByType ==
  \A e \in Range(emitted) :
    e.branch = "composite" =>
      \A i \in 1..Len(e.inside) :
        e.inside[i].text =
          StepBase(e.inside[i].node)
          \o (IF DocBareUpper(e.inside[i].node) # cfg.filterParent
              THEN IndexSuffix(AssignedIndexOf(e.inside[i].node)) ELSE <<>>)

C16_Witness ==
  \E e \in Range(emitted) :
    /\ e.branch = "composite"
    /\ \E i \in 1..Len(e.inside) :
         /\ DocBareUpper(e.inside[i].node) # cfg.filterParent
         /\ AssignedIndexOf(e.inside[i].node) = 1
    /\ \E i \in 1..Len(e.inside) :
         /\ DocBareUpper(e.inside[i].node) = cfg.filterParent
         /\ e.inside[i].node # AnchorOf(e)

(***************************************************************************)
(* C17, as claimed: a leaf that the composite slice does not address is    *)
(* grouped on the anchor alone if any selected ancestor is of the          *)
(* filter-parent type, and gets the plain path only if none is.            *)
(***************************************************************************)
OfFilterParentType(e) ==
  { n \in Range(e.included) :
      cfg.filterParent # <<>> /\ DocBareUpper(n) = cfg.filterParent }

C17_FallbackByType ==
  \A e \in Range(emitted) :
    e.branch # "composite" =>
      e.branch = IF OfFilterParentType(e) # {} THEN "anchor" ELSE "plain"

(***************************************************************************)
(* C17, amended: a leaf that the composite slice does not address is       *)
(* grouped on the anchor alone, (//<anchorSignature>)[n], if a selected    *)
(* ancestor of the filter-parent type carrying a predicate exists (it      *)
(* then lies before the start anchor), and gets the plain path without     *)
(* parenthesised group if none exists, also when selected ancestors of     *)
(* the filter-parent type without predicate exist.                         *)
(***************************************************************************)
StartsWith(text, prefix) ==
  Len(text) >= Len(prefix) /\ SubSeq(text, 1, Len(prefix)) = prefix

C17_FallbackByPredicate ==
  \A e \in Range(emitted) :
    /\ e.branch = "composite" => Candidates(e) # {} /\ e.start <= AnchorOf(e)
    /\ e.branch # "composite" =>
         IF Candidates(e) # {}
         THEN /\ e.branch = "anchor"
              /\ AnchorOf(e) = FirstOr(Candidates(e), 0)
              /\ AnchorOf(e) < e.start
              /\ StartsWith(e.xpath, Grouped(StepBase(AnchorOf(e)), e.number))
         ELSE /\ e.branch = "plain"
              /\ StartsWith(e.xpath, <<"/","/">>)
              /\ "(" \notin Range(e.xpath)

C17_Witness ==
  /\ \E e \in Range(emitted) : e.branch = "plain" /\ OfFilterParentType(e) # {}
  /\ \E e \in Range(emitted) : e.branch = "anchor"
  /\ \E e \in Range(emitted) : e.branch = "composite"

(***************************************************************************)
(* C18: the start anchor is the first selected ancestor whose predicate    *)
(* comes from the configured attribute and not from the text of the        *)
(* filter-child, and the first selected ancestor when there is none, for   *)
(* every configuration.                                                    *)
(***************************************************************************)
\* the predicate of n is the one of the child-text rule
FromChildText(n) ==
  /\ cfg.filterParent # <<>> /\ cfg.filterChild # <<>>
  /\ DocBareUpper(n) = cfg.filterParent
  /\ getChildText(obj[n], cfg.filterChild) \notin { Null, <<>> }

FromAttribute(n) == Pred(n) # <<>> /\ ~FromChildText(n)

C18_StartIsAttributeBased ==
  \A e \in Range(emitted) :
    e.start = FirstOr({ n \in Range(e.included) : FromAttribute(n) },
                      e.included[1])

(***************************************************************************)
(* C19: the lines appear in document pre-order of their leaves, also when  *)
(* differently named siblings are interleaved, and no line is dropped as   *)
(* a duplicate.                                                            *)
(***************************************************************************)
C19_LinesInDocumentOrder ==
  /\ Len(results) = Len(emitted)
  /\ \A k, l \in 1..Len(emitted) :
       k < l => emitted[k].leaf < emitted[l].leaf

(***************************************************************************)
(* C20: the phases run in the order read, parse, traverse, write; a read   *)
(* failure ends the run before any parse, a parse failure before any       *)
(* traversal, a write failure comes only after the whole traversal; the    *)
(* output is written at most once, and then with all the lines.            *)
(***************************************************************************)
NothingParsed == obj = <<>> /\ visited = <<>> /\ results = <<>> /\ written = <<>>

AllVisited == todo = <<>> /\ Len(visited) = Len(doc)

PhaseInv ==
  /\ pc \in {"read", "exit2", "parse", "exit3"} => NothingParsed
  /\ pc = "traverse" => written = <<>>
  /\ pc = "exit4" => AllVisited /\ written = <<>>
  /\ pc = "done" => AllVisited /\ written = << results >>
  /\ pc \in {"read", "exit2", "parse", "exit3", "traverse", "exit4", "done"}

PhaseStep ==
  /\ << pc, pc' >> \in { << "read", "parse" >>, << "read", "exit2" >>,
                         << "parse", "traverse" >>, << "parse", "exit3" >>,
                         << "traverse", "traverse" >>,
                         << "traverse", "done" >>, << "traverse", "exit4" >> }
  /\ written' # written =>
       pc = "traverse" /\ pc' = "done" /\ todo = <<>> /\ written' = << results >>
  /\ pc' \in {"done", "exit4"} =>
       todo = <<>> /\ results' = results /\ visited' = visited

C20_PhasesInOrder == []PhaseInv /\ [][PhaseStep]_vars

C20_Witness ==
  pc = "exit4" /\ Len(results) >= 2 /\ written = <<>>

(***************************************************************************)
(* C21: a run that produces no line still ends normally with the empty     *)
(* output written, and reports the number of leaf elements and the number  *)
(* of leaf elements with a selected ancestor (themselves included), the    *)
(* latter whether their text is empty or not.                              *)
(***************************************************************************)
DocLeaves == { i \in Elements : DocIsLeaf(i) }

C21_ZeroLinesReport ==
  (pc = "done" /\ Len(results) = 0) =>
    /\ written = << <<>> >>
    /\ warned = << Cardinality(DocLeaves),
                   Cardinality({ i \in DocLeaves : HasSelectedAncestor(i) }) >>

(***************************************************************************)
(* C22: two runs over the same document and configuration produce the      *)
(* same sequence of lines, with the same signature indices and composite   *)
(* numbers.                                                                *)
(***************************************************************************)
SecondRunOver == Len(previous) = 1 /\ pc \in {"done", "exit4"}

GroupedLines == { e \in Range(emitted) : IsGrouped(e) }

\* the instance keys the lines have stored under composite key K
InstancesOf(K) == { e.instance : e \in { g \in GroupedLines : g.key = K } }

TablesInv ==
  /\ DOMAIN compositeKeyCounters = { e.key : e \in GroupedLines }
  /\ DOMAIN compositeInstanceToNumber = { e.instance : e \in GroupedLines }
  /\ \A e \in GroupedLines : compositeInstanceToNumber[e.instance] = e.number
  /\ \A K \in DOMAIN compositeKeyCounters :
       /\ { compositeInstanceToNumber[i] : i \in InstancesOf(K) }
            = 1..compositeKeyCounters[K]
       /\ Cardinality(InstancesOf(K)) = compositeKeyCounters[K]
  /\ \A K, L \in DOMAIN compositeKeyCounters :
       K # L => InstancesOf(K) \cap InstancesOf(L) = {}

TablesStep ==
  \A i \in DOMAIN compositeInstanceToNumber :
    /\ i \in DOMAIN compositeInstanceToNumber'
    /\ compositeInstanceToNumber'[i] = compositeInstanceToNumber[i]

C27_TablesDense == []TablesInv /\ [][TablesStep]_vars

C27_Witness ==
  /\ \E K \in DOMAIN compositeKeyCounters : compositeKeyCounters[K] >= 3
  /\ Cardinality(DOMAIN compositeKeyCounters) >= 2
  /\ \E a, b \in GroupedLines : a.leaf # b.leaf /\ a.instance = b.instance

(***************************************************************************)
(* C28: in a grouped xpath the selected ancestors before the start of the  *)
(* grouped slice (the start anchor in the composite branch, the group      *)
(* anchor in the anchor-only branch) have no step, and every selected      *)
(* ancestor from there to the last has exactly one, in chain order.        *)
(***************************************************************************)
SliceFirst(e) == IF e.branch = "composite" THEN e.start ELSE e.image

NodesOf(steps) == [ i \in 1..Len(steps) |-> steps[i].node ]

C28_StepsFromSliceStart ==
  \A e \in GroupedLines :
    /\ SliceStartOf(e) = SliceFirst(e)
    /\ NodesOf(AllSteps(e))
         = SelectSeq(e.included, LAMBDA n : n >= SliceFirst(e))
           \o (IF e.leaf \in Range(e.included) THEN <<>> ELSE << e.leaf >>)

C28_Witness ==
  \E e \in GroupedLines :
    /\ e.included[1] < SliceFirst(e)
    /\ Len(AllSteps(e)) >= 2
    /\ Len(AllSteps(e)) < Len(e.included) + 1

(***************************************************************************)
(* C29: a concat(...) of formatXPathLiteral has at least two arguments     *)
(* and no empty one, also for values that begin or end with a single       *)
(* quote or hold single quotes in a row.                                   *)
(***************************************************************************)
C29_NoEmptyArgument ==
  (Returned("formatXPathLiteral") /\ IsConcat(ret)) =>
    /\ BothQuotes(call.value)
    /\ Len(LiteralArgs(ret)) >= 2
    /\ \A k \in 1..Len(LiteralArgs(ret)) : LiteralArgs(ret)[k].content # <<>>
    /\ Rewritten(ret) = ret

C29_Witness ==
  /\ Returned("formatXPathLiteral") /\ IsConcat(ret)
  /\ Len(call.value) >= 4
  /\ call.value[1] = SQ /\ call.value[Len(call.value)] = SQ
  /\ \E i \in 1..(Len(call.value) - 1) :
       call.value[i] = SQ /\ call.value[i + 1] = SQ

(***************************************************************************)
(* C26: every input line that, without its surrounding blanks, is not      *)
(* empty, does not start with '#' or '//', holds a colon and has a         *)
(* non-empty key gives exactly one mapping, split at its first colon with  *)
(* key and value trimmed; the mappings are in input order, and the output  *)
(* holds exactly one <common> block per mapping, in that order.            *)
(***************************************************************************)
TextLines ==
  LET pieces == split(inputText, "\n")
  IN [ i \in 1..Len(pieces) |-> trim(pieces[i]) ]

FirstColon(t) ==
  CHOOSE i \in 1..Len(t) : t[i] = ":" /\ \A j \in 1..(i - 1) : t[j] # ":"

KeyOf(t) == trim(SubSeq(t, 1, FirstColon(t) - 1))

ValueOf(t) == trim(SubSeq(t, FirstColon(t) + 1, Len(t)))

YieldsMapping(t) ==
  /\ t # <<>>
  /\ t[1] # "#"
  /\ ~ (Len(t) >= 2 /\ t[1] = "/" /\ t[2] = "/")
  /\ ":" \in Range(t)
  /\ KeyOf(t) # <<>>

ExpectedMappings ==
  LET kept == SelectSeq(TextLines, YieldsMapping)
  IN [ i \in 1..Len(kept) |-> [ key |-> KeyOf(kept[i]), value |-> ValueOf(kept[i]) ] ]

OpenCommon == { i \in 1..Len(out) : trim(out[i]) = <<"<","c","o","m","m","o","n",">">> }

CloseCommon == { i \in 1..Len(out) : trim(out[i]) = <<"<","/","c","o","m","m","o","n",">">> }

TagLine(key) ==
  <<"<","A","C","I","_","T","a","g",">">> \o escapeXml(key)
  \o <<"<","/","A","C","I","_","T","a","g",">">>

DocChildText(d, j, childName) ==
  LET kids == { c \in 1..Len(d) : /\ c > j /\ Parent(d, c) = j
                                  /\ toLowerCase(d[c].tag) = toLowerCase(childName) }
  IN IF kids = {} THEN Null
     ELSE d[CHOOSE c \in kids : \A other \in kids : c <= other].text

HasValue(chars) == chars # Null /\ chars # <<>>

FirstRun == previous = <<>>

(***************************************************************************)
(* C23: the Map holds, for every MIME value met so far, the category of    *)
(* the first IMAGE node of the traversal with that MIME value (null when   *)
(* that node has none), and an entry once made is never changed by a       *)
(* later node.                                                             *)
(***************************************************************************)
MimeOfFirst(k) ==
  IF images1[k].ref = 0 THEN Null
  ELSE DocChildText(xml1, images1[k].ref, MIMETypeIdentifier)

CategoryOfFirst(k) ==
  LET cat == DocChildText(xml1, images1[k].ref, ImageCategoryType)
  IN IF HasValue(cat) THEN cat ELSE Null

Mapped == IF pc = "map" THEN 1..(at - 1) ELSE 1..Len(images1)

MapInv ==
  pc \in {"map", "update", "done", "exit3"} =>
    LET mimes == [ k \in 1..Len(images1) |-> MimeOfFirst(k) ]
        First(k) == CHOOSE n \in 1..k :
                      mimes[n] = mimes[k] /\ \A e \in 1..(n - 1) : mimes[e] # mimes[k]
    IN /\ DOMAIN mimeToCategory
            = { Str(mimes[k]) : k \in { n \in Mapped : HasValue(mimes[n]) } }
       /\ \A k \in Mapped :
            HasValue(mimes[k]) =>
              mimeToCategory[Str(mimes[k])] = CategoryOfFirst(First(k))

MapStep ==
  pc' # "read" =>
    \A m \in DOMAIN mimeToCategory :
      m \in DOMAIN mimeToCategory' /\ mimeToCategory'[m] = mimeToCategory[m]

C23_FirstOccurrenceWins == []MapInv /\ [][MapStep]_vars

C23_Witness ==
  /\ pc = "done"
  /\ \E k \in 1..Len(images1) : \E later \in (k + 1)..Len(images1) :
       /\ HasValue(MimeOfFirst(k))
       /\ MimeOfFirst(later) = MimeOfFirst(k)
       /\ CategoryOfFirst(k) = Null
       /\ CategoryOfFirst(later) # Null
       /\ mimeToCategory[Str(MimeOfFirst(k))] = Null

(***************************************************************************)
(* C24: when the first run has ended, an IMAGE element of the second       *)
(* document has a new ImageCategoryType exactly when its non-empty         *)
(* MIMETypeIdentifier is in the Map with a non-null category other than    *)
(* its own, and then it has the mapped one; updates is the number of       *)
(* IMAGE elements changed; a second run over the produced document makes   *)
(* no update.                                                              *)
(***************************************************************************)
ImageElements == { j \in 1..Len(xml2) : xml2[j].tag = IMAGE }

CategoryNow(j) ==
  IF obj2[j].type # "object" THEN Null
  ELSE getChildTextOf(obj2, [ ref |-> j, text |-> <<>>, el |-> j ], ImageCategoryType)

CategoryBefore(j) == DocChildText(xml2, j, ImageCategoryType)

Changed(j) == CategoryNow(j) # CategoryBefore(j) \/ obj2[j] # Parse(xml2)[j]

MappedCategory(j) == mimeToCategory[Str(DocChildText(xml2, j, MIMETypeIdentifier))]

ShouldChange(j) ==
  /\ HasValue(DocChildText(xml2, j, MIMETypeIdentifier))
  /\ Str(DocChildText(xml2, j, MIMETypeIdentifier)) \in DOMAIN mimeToCategory
  /\ MappedCategory(j) # Null
  /\ CategoryBefore(j) # MappedCategory(j)

C24_UpdatesExactly ==
  /\ (pc = "done" /\ FirstRun) =>
       /\ \A j \in ImageElements :
            /\ Changed(j) <=> ShouldChange(j)
            /\ Changed(j) => CategoryNow(j) = MappedCategory(j)
       /\ updates = Cardinality({ j \in ImageElements : Changed(j) })
  /\ (pc \in {"update", "done"} /\ ~FirstRun) => updates = 0

(***************************************************************************)
(* C25: findImageNodes returns every element whose tag is Image in any     *)
(* letter case, at any depth, once each.                                   *)
(***************************************************************************)
FoundIn(images) == { images[k].el : k \in 1..Len(images) }

C25_FindsEveryImage ==
  /\ pc \in {"map", "update", "done"} =>
       /\ FoundIn(images1) = { j \in 1..Len(xml1) : toUpperCase(xml1[j].tag) = IMAGE }
       /\ Cardinality(FoundIn(images1)) = Len(images1)
  /\ pc \in {"update", "done"} =>
       /\ FoundIn(images2) = { j \in 1..Len(xml2) : toUpperCase(xml2[j].tag) = IMAGE }
       /\ Cardinality(FoundIn(images2)) = Len(images2)

=============================================================================
